---- MODULE Spec2Model ----
(***************************************************************************)
(* Model of the Qobuz plugin of Clementine: QobuzService (the service,     *)
(* its asynchronous HTTP requests and reply handlers, Logout with its      *)
(* nested event loops), QobuzSearchProvider (the search and cover-art      *)
(* correlation tables) and the slots of QobuzSettingsPage.                 *)
(*                                                                         *)
(* Everything runs on the Qt main thread.  A handler runs to completion    *)
(* unless it enters a nested event loop (WaitForSignal in Logout and in    *)
(* GetStreamingUrlFromSongId); it is then suspended as a frame of `stack`, *)
(* other handlers run inside the nested loop, and the frame resumes only   *)
(* when it is the innermost frame and its signal has been emitted.         *)
(***************************************************************************)
EXTENDS Integers, Sequences, FiniteSets, TLC

\* ---------------------------------------------------------------- bounds
MaxRequests == 5      \* HTTP requests issued over a run
MaxTasks == 6         \* TaskManager tasks started over a run
MaxDepth == 2         \* nested event loops
MaxItems == 1         \* items of a response list
MaxLoader == 3        \* cover loader ids handed out over a run
MaxSearches == 3      \* SimpleSearch calls over a run
MaxRecords == 3       \* items of a response handed to ExtractSongs alone
MaxAdds == 2          \* AddCurrentSongToPlaylist actions on one playlist over a run

\* ------------------------------------------------------- program constants
NO_ERROR == 200
UNAUTHORIZED == 401
SERVER_ERROR == 500
NONE == 0
MP3 == 5
FLAC == 6

Statuses == {NO_ERROR, UNAUTHORIZED, SERVER_ERROR}
Qualities == {NONE, MP3, FLAC}
Tokens == {"", "tok"}
UserIds == {"", "u1"}
Queries == {"", "a"}
Texts == {"", "a", "b"}
CallerIds == {1, 2}
PlaylistIds == {1, 2}
SongIds == {1, 2}
Images == {"img"}
Timestamps == {1700000000, 1700000001}

\* The tracks a response can list: a record with its id and streamable flag.
Tracks == {[id |-> 1, streamable |-> TRUE], [id |-> 2, streamable |-> FALSE]}
\* The items a response can hold where a track is expected: no fields at all,
\* a track, a track that cannot be streamed, a record without the streamable
\* field, a record without an id.
NoFields == [k \in {} |-> 0]
SongRecords ==
  {NoFields, [id |-> 1, streamable |-> TRUE], [id |-> 2, streamable |-> FALSE],
   [id |-> 3], [streamable |-> TRUE]}
\* The playlists a response can list.
PlaylistItems == [id : PlaylistIds, name : {"p"}, own : {TRUE}]

RECURSIVE SeqsUpTo(_, _)
SeqsUpTo(S, n) ==
  IF n = 0 THEN {<<>>}
  ELSE LET shorter == SeqsUpTo(S, n - 1)
       IN shorter \cup
          {Append(q, x) : q \in {p \in shorter : Len(p) = n - 1}, x \in S}

\* The lists of at most n entries of S a response can carry: each entry
\* once, in the order of the ids.
Listings(S, n) ==
  {q \in SeqsUpTo(S, n) : \A i \in 1..Len(q), j \in 1..Len(q) : i < j => q[i].id < q[j].id}

\* ------------------------------------------------------------------ state
VARIABLES
  \* QobuzService
  access_token_, user_id_, quality_,
  search_, user_favorites_, user_playlists_, featured_playlists_,
  featured_playlists_info_, user_playlists_info_,
  pending_search_, search_delay_,
  next_pending_search_id_, task_search_id_, next_pending_playlist_id_,
  task_featured_playlists_id_, task_user_playlists_id_, task_user_favorites_id_,
  pending_retrieve_playlists_, current_song_id_,
  \* QSettings, group "Qobuz": key -> <<>> (absent) or <<value>>
  settings,
  \* TaskManager
  tasks, next_task_id,
  \* NetworkAccessManager: the requests awaiting their reply
  network, next_req,
  \* the suspended handlers (nested event loops), innermost last
  stack,
  \* the process has crashed (null or dangling pointer dereferenced)
  crashed,
  \* QobuzSearchProvider
  pending_searches_, cover_loader_tasks_,
  \* AlbumCoverLoader: next id returned by LoadImageAsync, the loads not yet
  \* reported by ImageLoaded (of this provider and of the other clients)
  next_loader_id, cover_loads,
  \* QobuzSettingsPage: state of the login widget
  login_state,
  \* observation: the signals emitted and the code points passed by the last step
  emitted, probe,
  \* history: per service search id, the caller id given to SearchAsync and
  \* the number of ResultsAvailable emitted for it
  search_calls,
  \* history: per user playlist, the songs it had at the first
  \* AddCurrentSongToPlaylist, the songs added since, and the song list of
  \* the last update request sent for it (<<>> when none was sent)
  edits,
  \* history: the text of the most recent Search call (<<>> before the first)
  last_search

vars == <<access_token_, user_id_, quality_, search_, user_favorites_,
          user_playlists_, featured_playlists_, featured_playlists_info_,
          user_playlists_info_, pending_search_, search_delay_,
          next_pending_search_id_, task_search_id_, next_pending_playlist_id_,
          task_featured_playlists_id_, task_user_playlists_id_,
          task_user_favorites_id_, pending_retrieve_playlists_, current_song_id_,
          settings, tasks, next_task_id, network, next_req, stack, crashed,
          pending_searches_, cover_loader_tasks_, next_loader_id, cover_loads,
          login_state, emitted, probe, search_calls, edits, last_search>>

\* The state as one record, so that the sequential code of a handler is a
\* composition of state transformers.
Cur ==
  [access_token_ |-> access_token_, user_id_ |-> user_id_, quality_ |-> quality_,
   search_ |-> search_, user_favorites_ |-> user_favorites_,
   user_playlists_ |-> user_playlists_, featured_playlists_ |-> featured_playlists_,
   featured_playlists_info_ |-> featured_playlists_info_,
   user_playlists_info_ |-> user_playlists_info_,
   pending_search_ |-> pending_search_, search_delay_ |-> search_delay_,
   next_pending_search_id_ |-> next_pending_search_id_,
   task_search_id_ |-> task_search_id_,
   next_pending_playlist_id_ |-> next_pending_playlist_id_,
   task_featured_playlists_id_ |-> task_featured_playlists_id_,
   task_user_playlists_id_ |-> task_user_playlists_id_,
   task_user_favorites_id_ |-> task_user_favorites_id_,
   pending_retrieve_playlists_ |-> pending_retrieve_playlists_,
   current_song_id_ |-> current_song_id_,
   settings |-> settings, tasks |-> tasks, next_task_id |-> next_task_id,
   network |-> network, next_req |-> next_req, stack |-> stack,
   crashed |-> crashed, pending_searches_ |-> pending_searches_,
   cover_loader_tasks_ |-> cover_loader_tasks_, next_loader_id |-> next_loader_id,
   cover_loads |-> cover_loads,
   login_state |-> login_state, emitted |-> emitted, probe |-> probe,
   search_calls |-> search_calls, edits |-> edits, last_search |-> last_search]

Commit(s) ==
  /\ access_token_' = s.access_token_
  /\ user_id_' = s.user_id_
  /\ quality_' = s.quality_
  /\ search_' = s.search_
  /\ user_favorites_' = s.user_favorites_
  /\ user_playlists_' = s.user_playlists_
  /\ featured_playlists_' = s.featured_playlists_
  /\ featured_playlists_info_' = s.featured_playlists_info_
  /\ user_playlists_info_' = s.user_playlists_info_
  /\ pending_search_' = s.pending_search_
  /\ search_delay_' = s.search_delay_
  /\ next_pending_search_id_' = s.next_pending_search_id_
  /\ task_search_id_' = s.task_search_id_
  /\ next_pending_playlist_id_' = s.next_pending_playlist_id_
  /\ task_featured_playlists_id_' = s.task_featured_playlists_id_
  /\ task_user_playlists_id_' = s.task_user_playlists_id_
  /\ task_user_favorites_id_' = s.task_user_favorites_id_
  /\ pending_retrieve_playlists_' = s.pending_retrieve_playlists_
  /\ current_song_id_' = s.current_song_id_
  /\ settings' = s.settings
  /\ tasks' = s.tasks
  /\ next_task_id' = s.next_task_id
  /\ network' = s.network
  /\ next_req' = s.next_req
  /\ stack' = s.stack
  /\ crashed' = s.crashed
  /\ pending_searches_' = s.pending_searches_
  /\ cover_loader_tasks_' = s.cover_loader_tasks_
  /\ next_loader_id' = s.next_loader_id
  /\ cover_loads' = s.cover_loads
  /\ login_state' = s.login_state
  /\ emitted' = s.emitted
  /\ probe' = s.probe
  /\ search_calls' = s.search_calls
  /\ edits' = s.edits
  /\ last_search' = s.last_search

\* A tree node pointer: null, or an item with its rows.
NullNode == [exists |-> FALSE, rows |-> <<>>]
NewNode == [exists |-> TRUE, rows |-> <<>>]

SettingsKeys == {"access_token", "user_id", "quality", "user_mail",
                 "hifi_subscriber", "username"}

\* A signal, a code point: name, an integer and a sequence.
Sig(name, a, b) == [sig |-> name, a |-> a, b |-> b]
Emit(s, name, a, b) == [s EXCEPT !.emitted = Append(@, Sig(name, a, b))]
Probe(s, name, a, b) == [s EXCEPT !.probe = Append(@, Sig(name, a, b))]

\* Dereferencing a null or dangling pointer: the process dies.
Crash(s, where) == Probe([s EXCEPT !.crashed = TRUE], "crash", 0, <<where>>)

\* ---------------------------------------------------------- nested loops
\* A suspended handler.  pc: "w1" (Logout, first wait loop), "w2" (Logout,
\* second wait loop), "stream" (GetStreamingUrlFromSongId).  woken: the
\* signal its QEventLoop is connected to has been emitted.  cont: what the
\* caller does once the call returns.
Frame(pc, task, rid, cont) ==
  [pc |-> pc, task |-> task, rid |-> rid, woken |-> FALSE, status |-> 0, cont |-> cont]
Cont(k, h, p1, p2, p3) == [k |-> k, h |-> h, p1 |-> p1, p2 |-> p2, p3 |-> p3]
Return == Cont("return", "", 0, 0, <<>>)

WaitForSignal(s, frame) == [s EXCEPT !.stack = Append(@, frame)]

\* Every event loop connected to a signal quits when the signal is emitted.
Wake(s, pc) ==
  [s EXCEPT !.stack = [i \in DOMAIN s.stack |->
      IF s.stack[i].pc = pc THEN [s.stack[i] EXCEPT !.woken = TRUE] ELSE s.stack[i]]]

\* ------------------------------------------------------------ TaskManager
TasksChanged(s) == Wake(s, "w1")
StartTask(s) ==
  TasksChanged([s EXCEPT !.tasks = @ \cup {s.next_task_id}, !.next_task_id = @ + 1])
ContainsTask(s, id) == id \in s.tasks
SetTaskFinished(s, id) ==
  IF id \notin s.tasks THEN s ELSE TasksChanged([s EXCEPT !.tasks = @ \ {id}])

\* ------------------------------------------------------ QobuzSettingsPage
SettingsConnected(s) == [s EXCEPT !.login_state = "LoggedIn"]
SettingsReplyError(s, status_code) ==
  IF status_code = UNAUTHORIZED THEN [s EXCEPT !.login_state = "LoggedOut"] ELSE s
SettingsNotPremium(s) == [s EXCEPT !.login_state = "LoggedOut"]

\* ----------------------------------------------------------- QobuzService
IsLoggedIn(s) == s.access_token_ # ""

\* The resources of the API.
kAuthTokenUrl == "/user/login"
kUserPlaylists == "/playlist/getUserPlaylists"
kFeaturedPlaylists == "/playlist/getFeatured"
kGetPlaylist == "/playlist/get"
kCreatePlaylist == "/playlist/create"
kUpdatePlaylist == "/playlist/update"
kDeletePlaylist == "/playlist/delete"
kUserFavorites == "/favorite/getUserFavorites"
kUserAddFavorite == "/favorite/create"
kUserDeleteFavorite == "/favorite/delete"
kSearch == "/catalog/search"
\* This one is edited by the code: the string as its pieces around the slashes.
kSteamUrl == <<"/", "track", "/", "getFileUrl">>
kAppSecret == ""
kSongSearchLimit == 100
kSongSimpleSearchLimit == 30

Param(first, second) == [first |-> first, second |-> second]

\* A request and the slot its finished() is bound to by NewClosure: `kind`
\* names the slot, p1, p2, p3 are the arguments bound with it.
Request(rid, kind, p1, p2, p3, ressource_name, params) ==
  [rid |-> rid, kind |-> kind, p1 |-> p1, p2 |-> p2, p3 |-> p3,
   ressource_name |-> ressource_name, params |-> params]

\* network_->get(req): the reply is awaited until its finished() is handled.
CreateRequest(s, kind, p1, p2, p3, ressource_name, params) ==
  Probe([s EXCEPT !.network = @ \cup {Request(s.next_req, kind, p1, p2, p3,
                                                ressource_name, params)},
                  !.next_req = @ + 1],
        "CreateRequest", s.next_req, <<kind>>)

\* QString::number of each id, separated by commas; the list is not empty.
RECURSIVE SongsIdsToStringParameter(_)
SongsIdsToStringParameter(songs) ==
  IF Len(songs) = 1 THEN ToString(songs[1])
  ELSE ToString(Head(songs)) \o "," \o SongsIdsToStringParameter(Tail(songs))

LoadCredentialsIfEmpty(s) ==
  IF s.access_token_ = "" THEN
    IF s.settings["access_token"] = <<>> THEN s
    ELSE [s EXCEPT !.access_token_ = s.settings["access_token"][1],
                   !.user_id_ = IF s.settings["user_id"] = <<>> THEN ""
                                ELSE s.settings["user_id"][1],
                   !.quality_ = IF s.settings["quality"] = <<>> THEN NONE
                                ELSE s.settings["quality"][1]]
  ELSE s

RetrieveUserFavorites(s) ==
  LET s1 == [StartTask(s) EXCEPT !.task_user_favorites_id_ = s.next_task_id]
  IN CreateRequest(s1, "favorites", 0, 0, <<>>, kUserFavorites,
                   <<Param("type", "tracks"), Param("user_id", s.user_id_)>>)

RetrieveFeaturedPlaylists(s) ==
  LET s1 == [StartTask(s) EXCEPT !.task_featured_playlists_id_ = s.next_task_id]
  IN CreateRequest(s1, "featured", 0, 0, <<>>, kFeaturedPlaylists,
                   <<Param("type", "editor-picks"), Param("user_id", s.user_id_)>>)

RetrieveUserPlaylists(s) ==
  LET s1 == [StartTask(s) EXCEPT !.task_user_playlists_id_ = s.next_task_id]
  IN CreateRequest(s1, "userplaylists", 0, 0, <<>>, kUserPlaylists,
                   <<Param("user_id", s.user_id_)>>)

RetrieveUserData(s) ==
  RetrieveUserPlaylists(RetrieveUserFavorites(RetrieveFeaturedPlaylists(
    LoadCredentialsIfEmpty(s))))

EnsureItemsCreated(s) ==
  LET s1 == IF IsLoggedIn(s) /\ ~s.search_.exists
            THEN [s EXCEPT !.search_ = NewNode] ELSE s
  IN IF /\ ~s1.user_favorites_.exists /\ ~s1.featured_playlists_.exists
        /\ ~s1.user_playlists_.exists /\ IsLoggedIn(s1)
     THEN RetrieveUserData([s1 EXCEPT !.user_favorites_ = NewNode,
                                      !.featured_playlists_ = NewNode,
                                      !.user_playlists_ = NewNode])
     ELSE s1

EnsuredConnected(s) == IF s.access_token_ = "" THEN s ELSE EnsureItemsCreated(s)

RefreshPlaylist(s, playlist_id) ==
  LET id == s.next_pending_playlist_id_
      s1 == CreateRequest(s, "playlist", playlist_id, id, <<>>, kGetPlaylist,
                          <<Param("extra", "tracks"),
                            Param("playlist_id", ToString(playlist_id))>>)
  IN [s1 EXCEPT !.next_pending_playlist_id_ = @ + 1,
                !.pending_retrieve_playlists_ = @ \cup {id}]

ClearSearchResults(s) ==
  IF s.search_.exists THEN [s EXCEPT !.search_.rows = <<>>] ELSE s

\* A QVariantMap as a function on its keys; a key the map does not hold reads
\* as the default-constructed value.
Value(m, k, default) == IF k \in DOMAIN m THEN m[k] ELSE default

\* A Song, as far as the plugin reads it back: is_valid() and the id held
\* in the path of its url (0 when the url is not set).
InvalidSong == [valid |-> FALSE, id |-> 0]

\* Valid as soon as the record is not empty.
ExtractSong_NoStreamableTest(result_song) ==
  IF DOMAIN result_song # {}
  THEN [valid |-> TRUE, id |-> Value(result_song, "id", 0)]
  ELSE InvalidSong

ExtractSong(result_song) ==
  IF DOMAIN result_song # {} /\ Value(result_song, "streamable", FALSE)
  THEN [valid |-> TRUE, id |-> Value(result_song, "id", 0)]
  ELSE InvalidSong

\* The valid songs of a response's item list, in order, each as its id.
RECURSIVE ExtractSongs(_)
ExtractSongs(items) ==
  IF items = <<>> THEN <<>>
  ELSE LET song == ExtractSong(Head(items))
       IN IF song.valid
          THEN <<song.id>> \o ExtractSongs(Tail(items))
          ELSE ExtractSongs(Tail(items))

\* A QMap<int, T> as a function on its keys.
EmptyMap == <<>>
MapInsert(m, k, v) == [x \in DOMAIN m \cup {k} |-> IF x = k THEN v ELSE m[x]]
MapRemove(m, k) == [x \in DOMAIN m \ {k} |-> m[x]]
Contains(m, k) == k \in DOMAIN m

\* PlaylistInfo(id, name, item); item_ is the playlist's tree item (its rows),
\* songs_ids_ starts empty.  can_modify is the item's Role_CanBeModified.
PlaylistInfo(id, name, can_modify) ==
  [id_ |-> id, name_ |-> name, item_ |-> NewNode, songs_ids_ |-> <<>>,
   can_modify |-> can_modify]
\* PlaylistInfo(): item_ is not initialised.
DefaultPlaylistInfo ==
  [id_ |-> 0, name_ |-> "", item_ |-> NullNode, songs_ids_ |-> <<>>,
   can_modify |-> FALSE]

\* The body of a reply, as the handlers read it.  A field the response does
\* not carry reads as empty, 0 or false (QVariant conversions).
Body(token, user_id, lossy, tracks, playlists, status, id) ==
  [token |-> token, user_id |-> user_id, lossy |-> lossy, tracks |-> tracks,
   playlists |-> playlists, status |-> status, id |-> id]
EmptyBody == Body("", "", FALSE, <<>>, <<>>, "", 0)

\* ------------------------------------------------- QobuzSearchProvider
PendingState(orig_id, tokens) == [orig_id_ |-> orig_id, tokens_ |-> tokens]


MaybeSearchFinished(s, id) ==
  IF {k \in DOMAIN s.pending_searches_ : s.pending_searches_[k].orig_id_ = id} = {}
  THEN Emit(s, "SearchFinished", id, <<>>)
  ELSE s

\* history: one more ResultsAvailable for the SearchAsync call of service id `id`
Delivered(s, id) ==
  IF Contains(s.search_calls, id)
  THEN [s EXCEPT !.search_calls[id].results = @ + 1] ELSE s

\* Variant: the signal carries the service's search id.
SearchDone_ServiceId(s, id, songs) ==
  LET s1 == Probe([s EXCEPT !.pending_searches_ = MapRemove(@, id)], "SearchDone", id, <<>>)
      s2 == Emit(s1, "ResultsAvailable", id, <<songs>>)
  IN MaybeSearchFinished(Delivered(s2, id), id)

\* The entry is read with value(), and stays in the table.
SearchDone_KeepsEntry(s, id, songs) ==
  LET state == IF Contains(s.pending_searches_, id) THEN s.pending_searches_[id]
               ELSE PendingState(-1, "")
      global_search_id == state.orig_id_
      s1 == Probe(s, "SearchDone", id, <<>>)
      s2 == Emit(s1, "ResultsAvailable", global_search_id, <<songs>>)
  IN MaybeSearchFinished(Delivered(s2, id), global_search_id)

SearchDone(s, id, songs) ==
  LET state == IF Contains(s.pending_searches_, id) THEN s.pending_searches_[id]
               ELSE PendingState(-1, "")
      global_search_id == state.orig_id_
      s1 == Probe([s EXCEPT !.pending_searches_ = MapRemove(@, id)], "SearchDone", id, <<>>)
      s2 == Emit(s1, "ResultsAvailable", global_search_id, <<songs>>)
  IN MaybeSearchFinished(Delivered(s2, id), global_search_id)

\* ------------------------------------------- reply handlers, after ExtractResult
RECURSIVE Logout(_, _, _)

\* The test of lossy_streaming left out.
ConnectFinishedTail_NoPremiumCheck(s, response, ub) ==
  LET s1 == [s EXCEPT !.access_token_ = response.token] IN
  IF s1.access_token_ = "" THEN s1
  ELSE
    LET s2 == [s1 EXCEPT !.user_id_ = response.user_id]
        s3 == [s2 EXCEPT !.settings =
                 [k \in SettingsKeys |->
                    CASE k = "access_token" -> <<s2.access_token_>>
                      [] k = "user_id" -> <<s2.user_id_>>
                      [] k = "user_mail" -> <<"mail">>
                      [] k = "hifi_subscriber" -> <<"hifi">>
                      [] OTHER -> s2.settings[k]]]
        s4 == Probe(s3, "setValue", 0, <<"access_token", "user_id">>)
        s5 == SettingsConnected(Emit(s4, "Connected", 0, <<>>))
    IN EnsureItemsCreated(s5)

\* The call of Logout left out.
ConnectFinishedTail_NoLogout(s, response, ub) ==
  LET s1 == [s EXCEPT !.access_token_ = response.token] IN
  IF s1.access_token_ = "" THEN s1
  ELSE
    LET s2 == [s1 EXCEPT !.user_id_ = response.user_id] IN
    IF ~response.lossy
    THEN Probe(SettingsNotPremium(Emit(s2, "NotPremium", 0, <<>>)),
               "ConnectFinished.return", 0, <<>>)
    ELSE
      LET s3 == [s2 EXCEPT !.settings =
                   [k \in SettingsKeys |->
                      CASE k = "access_token" -> <<s2.access_token_>>
                        [] k = "user_id" -> <<s2.user_id_>>
                        [] k = "user_mail" -> <<"mail">>
                        [] k = "hifi_subscriber" -> <<"hifi">>
                        [] OTHER -> s2.settings[k]]]
          s4 == Probe(s3, "setValue", 0, <<"access_token", "user_id">>)
          s5 == SettingsConnected(Emit(s4, "Connected", 0, <<>>))
      IN EnsureItemsCreated(s5)

ConnectFinishedTail(s, response, ub) ==
  LET s1 == [s EXCEPT !.access_token_ = response.token] IN
  IF s1.access_token_ = "" THEN s1
  ELSE
    LET s2 == [s1 EXCEPT !.user_id_ = response.user_id] IN
    IF ~response.lossy
    THEN Logout(SettingsNotPremium(Emit(s2, "NotPremium", 0, <<>>)), Return, ub)
    ELSE
      LET s3 == [s2 EXCEPT !.settings =
                   [k \in SettingsKeys |->
                      CASE k = "access_token" -> <<s2.access_token_>>
                        [] k = "user_id" -> <<s2.user_id_>>
                        [] k = "user_mail" -> <<"mail">>
                        [] k = "hifi_subscriber" -> <<"hifi">>
                        [] OTHER -> s2.settings[k]]]
          s4 == Probe(s3, "setValue", 0, <<"access_token", "user_id">>)
          s5 == SettingsConnected(Emit(s4, "Connected", 0, <<>>))
      IN EnsureItemsCreated(s5)

UserFavoritesRetrievedTail(s, response) ==
  LET songs == ExtractSongs(response.tracks)
      s1 == IF songs = <<>> THEN s
            ELSE IF ~s.user_favorites_.exists THEN Crash(s, "user_favorites_")
            ELSE [s EXCEPT !.user_favorites_.rows = @ \o songs]
  IN IF s1.crashed THEN s1 ELSE SetTaskFinished(s1, s1.task_user_favorites_id_)

RECURSIVE BuildFeaturedPlaylists(_, _)
BuildFeaturedPlaylists(s, items) ==
  IF items = <<>> \/ s.crashed THEN s
  ELSE
    LET item == Head(items)
        s1 == [s EXCEPT !.featured_playlists_info_ =
                 MapInsert(@, item.id, PlaylistInfo(item.id, item.name, FALSE))]
        s2 == IF ~s1.featured_playlists_.exists THEN Crash(s1, "featured_playlists_")
              ELSE RefreshPlaylist(
                     [s1 EXCEPT !.featured_playlists_.rows = Append(@, item.id)],
                     item.id)
    IN BuildFeaturedPlaylists(s2, Tail(items))

FeaturedPlaylistsRetrievedTail(s, response) ==
  LET s1 == BuildFeaturedPlaylists(s, response.playlists)
  IN IF s1.crashed THEN s1 ELSE SetTaskFinished(s1, s1.task_featured_playlists_id_)

RECURSIVE BuildUserPlaylists(_, _)
BuildUserPlaylists(s, items) ==
  IF items = <<>> \/ s.crashed THEN s
  ELSE
    LET item == Head(items)
        s1 == IF ~s.user_playlists_.exists THEN Crash(s, "user_playlists_")
              ELSE RefreshPlaylist(
                     [s EXCEPT !.user_playlists_.rows = Append(@, item.id),
                               !.user_playlists_info_ =
                                 MapInsert(@, item.id,
                                           PlaylistInfo(item.id, item.name, item.own))],
                     item.id)
    IN BuildUserPlaylists(s1, Tail(items))

UserPlaylistsRetrievedTail(s, response) ==
  LET s1 == BuildUserPlaylists(s, response.playlists)
  IN IF s1.crashed THEN s1 ELSE SetTaskFinished(s1, s1.task_user_playlists_id_)

SearchFinishedTail(s, response) ==
  LET songs == ExtractSongs(response.tracks) IN
  IF ~s.search_.exists THEN Crash(s, "search_")
  ELSE [SetTaskFinished([s EXCEPT !.search_.rows = @ \o songs], s.task_search_id_)
          EXCEPT !.task_search_id_ = 0]

SimpleSearchFinishedTail(s, id, response) ==
  LET songs == ExtractSongs(response.tracks)
  IN SearchDone(Emit(s, "SimpleSearchResults", id, <<songs>>), id, songs)

\* which: 1 when the entry was selected in featured_playlists_info_, 2 when in
\* user_playlists_info_.  The handler holds a pointer to the entry across
\* ExtractResult; if the map was cleared meanwhile the pointer dangles, and
\* writing through it either kills the process or is lost (ub).
PlaylistRetrievedTail(s, playlist_id, which, response, ub) ==
  LET songs == ExtractSongs(response.tracks)
      m == IF which = 1 THEN s.featured_playlists_info_ ELSE s.user_playlists_info_
      s1 == IF ~Contains(m, playlist_id)
            THEN (IF ub THEN Crash(s, "playlist_info") ELSE s)
            ELSE
              LET info == [m[playlist_id] EXCEPT
                             !.songs_ids_ = songs,
                             !.item_.rows = IF m[playlist_id].item_.exists
                                            THEN @ \o songs ELSE @]
              IN IF ~m[playlist_id].item_.exists /\ songs # <<>> /\ ub
                 THEN Crash(s, "item_")
                 ELSE IF which = 1
                 THEN [s EXCEPT !.featured_playlists_info_ = MapInsert(@, playlist_id, info)]
                 ELSE [s EXCEPT !.user_playlists_info_ = MapInsert(@, playlist_id, info)]
  IN IF s1.crashed THEN s1
     ELSE Wake(Emit(s1, "PlaylistRetrieved", 0, <<>>), "w2")

NewPlaylistCreatedTail(s, result) ==
  IF result.id = 0 THEN s
  ELSE IF ~s.user_playlists_.exists THEN Crash(s, "user_playlists_")
  ELSE [s EXCEPT !.user_playlists_.rows = Append(@, result.id),
                 !.user_playlists_info_ =
                   MapInsert(@, result.id, PlaylistInfo(result.id, "p", TRUE))]

RemoveRow(rows, x) ==
  LET first == CHOOSE i \in 1..Len(rows) : rows[i] = x /\ \A j \in 1..(i - 1) : rows[j] # x
  IN SubSeq(rows, 1, first - 1) \o SubSeq(rows, first + 1, Len(rows))

PlaylistDeletedTail(s, playlist_id, result) ==
  IF result.status # "success" THEN s
  ELSE IF ~Contains(s.user_playlists_info_, playlist_id) THEN s
  ELSE IF ~s.user_playlists_.exists THEN Crash(s, "user_playlists_")
  ELSE [s EXCEPT !.user_playlists_info_ = MapRemove(@, playlist_id),
                 !.user_playlists_.rows =
                   IF \E i \in 1..Len(@) : @[i] = playlist_id
                   THEN RemoveRow(@, playlist_id) ELSE @]

PlaylistRenamedTail(s, playlist_id, new_name, result) ==
  IF result.id = 0 THEN s
  ELSE IF ~Contains(s.user_playlists_info_, playlist_id) THEN s
  ELSE [s EXCEPT !.user_playlists_info_[playlist_id].name_ = new_name]

UserFavoriteSongAddedTail(s, task_id, result) ==
  IF result.status # "success" THEN s
  ELSE SetTaskFinished(RetrieveUserFavorites(s), task_id)

SongsRemovedFromFavoritesTail(s, task_id, result) ==
  IF result.status # "success" THEN s
  ELSE SetTaskFinished(RetrieveUserFavorites(s), task_id)

PlaylistSongsSetTail(s, playlist_id, task_id, result) ==
  IF result.id # playlist_id THEN s
  ELSE SetTaskFinished(RefreshPlaylist(s, playlist_id), task_id)

\* What the handler that called ExtractResult does with the returned map.
AfterExtract(s, cont, response, ub) ==
  LET s1 == Probe(s, "ExtractResult.return", cont.p1, <<cont.h, response>>) IN
  CASE cont.h = "login" -> ConnectFinishedTail(s1, response, ub)
    [] cont.h = "favorites" -> UserFavoritesRetrievedTail(s1, response)
    [] cont.h = "featured" -> FeaturedPlaylistsRetrievedTail(s1, response)
    [] cont.h = "userplaylists" -> UserPlaylistsRetrievedTail(s1, response)
    [] cont.h = "search" -> SearchFinishedTail(s1, response)
    [] cont.h = "simplesearch" -> SimpleSearchFinishedTail(s1, cont.p1, response)
    [] cont.h = "playlist" -> PlaylistRetrievedTail(s1, cont.p1, cont.p2, response, ub)
    [] cont.h = "create" -> NewPlaylistCreatedTail(s1, response)
    [] cont.h = "delete" -> PlaylistDeletedTail(s1, cont.p1, response)
    [] cont.h = "rename" -> PlaylistRenamedTail(s1, cont.p1, cont.p3[1], response)
    [] cont.h = "favadd" -> UserFavoriteSongAddedTail(s1, cont.p1, response)
    [] cont.h = "favdel" -> SongsRemovedFromFavoritesTail(s1, cont.p1, response)
    [] cont.h = "update" -> PlaylistSongsSetTail(s1, cont.p1, cont.p2, response)
    [] OTHER -> s1

EmitReplyError(s, status_code) ==
  SettingsReplyError(Emit(s, "ReplyError", status_code, <<>>), status_code)

\* QobuzSettingsPage::LogoutClicked, after service_->Logout() has returned.
LogoutClickedTail(s) ==
  [s EXCEPT !.login_state = "LoggedOut",
            !.settings = [k \in SettingsKeys |->
               IF k \in {"hifi_subscriber", "username", "user_mail"} THEN <<>>
               ELSE s.settings[k]]]

\* The caller of Logout resumes.
Continue(s, cont, ub) ==
  CASE cont.k = "ExtractResult" ->
         AfterExtract(EmitReplyError(s, UNAUTHORIZED), cont, EmptyBody, ub)
    [] cont.k = "LogoutClicked" -> LogoutClickedTail(s)
    [] OTHER -> Probe(s, "ConnectFinished.return", 0, <<>>)

\* ------------------------------------------------------------------ Logout
RetrievalKinds == {"featured", "userplaylists", "favorites", "search", "playlist"}

LogoutWaitsForTasks(s) ==
  \/ ContainsTask(s, s.task_featured_playlists_id_)
  \/ ContainsTask(s, s.task_search_id_)
  \/ ContainsTask(s, s.task_user_favorites_id_)
  \/ ContainsTask(s, s.task_user_playlists_id_)

LogoutWaitsForPlaylists(s) == s.pending_retrieve_playlists_ # {}

\* The search node left in the tree.
LogoutClear_KeepsSearch(s, task_id) ==
  LET s1 == [s EXCEPT !.access_token_ = "", !.user_id_ = "", !.quality_ = NONE,
                      !.settings = [k \in SettingsKeys |->
                         IF k \in {"access_token", "user_id", "quality"} THEN <<>>
                         ELSE s.settings[k]],
                      !.featured_playlists_ = NullNode,
                      !.user_favorites_ = NullNode,
                      !.user_playlists_ = NullNode,
                      !.featured_playlists_info_ = EmptyMap,
                      !.user_playlists_info_ = EmptyMap,
                      !.pending_search_ = ""]
      s2 == Probe(s1, "Logout.clear", task_id,
                  <<{r.kind : r \in s1.network} \cap RetrievalKinds>>)
  IN SetTaskFinished(s2, task_id)

\* The two wait loops, entered at `from`, then the rest of Logout and of its
\* caller.  A loop whose condition holds suspends the handler.
\* Lines 284-312: the credentials, the nodes, the playlists, the logout task.
LogoutClear(s, task_id) ==
  LET s1 == [s EXCEPT !.access_token_ = "", !.user_id_ = "", !.quality_ = NONE,
                      !.settings = [k \in SettingsKeys |->
                         IF k \in {"access_token", "user_id", "quality"} THEN <<>>
                         ELSE s.settings[k]],
                      !.featured_playlists_ = NullNode,
                      !.user_favorites_ = NullNode,
                      !.user_playlists_ = NullNode,
                      !.search_ = NullNode,
                      !.featured_playlists_info_ = EmptyMap,
                      !.user_playlists_info_ = EmptyMap,
                      !.pending_search_ = ""]
      s2 == Probe(s1, "Logout.clear", task_id,
                  <<{r.kind : r \in s1.network} \cap RetrievalKinds>>)
  IN SetTaskFinished(s2, task_id)

\* The two wait loops, entered at `from`, then the rest of Logout and of its
\* caller.  A loop whose condition holds suspends the handler.
\* What Logout leaves behind when it returns.
LogoutSnapshot(s, task_id) ==
  [access_token_ |-> s.access_token_, user_id_ |-> s.user_id_,
   quality_ |-> s.quality_,
   keys |-> {k \in SettingsKeys : s.settings[k] # <<>>},
   nodes |-> {n \in {"featured_playlists_", "user_favorites_",
                     "user_playlists_", "search_"} :
                CASE n = "featured_playlists_" -> s.featured_playlists_.exists
                  [] n = "user_favorites_" -> s.user_favorites_.exists
                  [] n = "user_playlists_" -> s.user_playlists_.exists
                  [] OTHER -> s.search_.exists},
   infos |-> DOMAIN s.featured_playlists_info_ \cup DOMAIN s.user_playlists_info_,
   pending_search_ |-> s.pending_search_,
   running |-> ContainsTask(s, task_id)]

LogoutFrom(s, from, task_id, cont, ub) ==
  IF from = "w1" /\ LogoutWaitsForTasks(s)
  THEN WaitForSignal(s, Frame("w1", task_id, 0, cont))
  ELSE IF LogoutWaitsForPlaylists(s)
  THEN WaitForSignal(s, Frame("w2", task_id, 0, cont))
  ELSE LET s1 == LogoutClear(s, task_id)
       IN Continue(Probe(s1, "Logout.done", task_id, <<LogoutSnapshot(s1, task_id)>>),
                   cont, ub)

Logout(s, cont, ub) ==
  LogoutFrom(Probe(StartTask(s), "Logout", s.next_task_id, <<>>), "w1",
             s.next_task_id, cont, ub)

\* ----------------------------------------------------------- ExtractResult
\* `cont` names the calling handler, which receives the returned map.
ExtractResult(s, status_code, body, cont, ub) ==
  LET s1 == Probe(s, "ExtractResult", status_code, <<cont.h>>) IN
  IF status_code # NO_ERROR
  THEN IF status_code = UNAUTHORIZED
       THEN Logout(s1, cont, ub)
       ELSE AfterExtract(EmitReplyError(s1, status_code), cont, EmptyBody, ub)
  ELSE AfterExtract(s1, cont, body, ub)

\* ----------------------------------------------------------- reply handlers
ConnectFinished(s, status_code, body, ub) ==
  ExtractResult(s, status_code, body, Cont("ExtractResult", "login", 0, 0, <<>>), ub)

UserFavoritesRetrieved(s, status_code, body, ub) ==
  IF ~s.user_favorites_.exists THEN Crash(s, "user_favorites_")
  ELSE ExtractResult([s EXCEPT !.user_favorites_.rows = <<>>], status_code, body,
                     Cont("ExtractResult", "favorites", 0, 0, <<>>), ub)

FeaturedPlaylistsRetrieved(s, status_code, body, ub) ==
  ExtractResult(s, status_code, body, Cont("ExtractResult", "featured", 0, 0, <<>>), ub)

UserPlaylistsRetrieved(s, status_code, body, ub) ==
  ExtractResult(s, status_code, body, Cont("ExtractResult", "userplaylists", 0, 0, <<>>), ub)

SearchFinished(s, status_code, body, ub) ==
  ExtractResult(s, status_code, body, Cont("ExtractResult", "search", 0, 0, <<>>), ub)

SimpleSearchFinished(s, id, status_code, body, ub) ==
  ExtractResult(s, status_code, body, Cont("ExtractResult", "simplesearch", id, 0, <<>>), ub)

\* The entry the handler selects, as it is when the reply arrives.
SelectedInfo(s, playlist_id) ==
  IF Contains(s.featured_playlists_info_, playlist_id)
  THEN <<s.featured_playlists_info_[playlist_id]>>
  ELSE IF Contains(s.user_playlists_info_, playlist_id)
  THEN <<s.user_playlists_info_[playlist_id]>>
  ELSE <<>>

\* The request id stays in pending_retrieve_playlists_.
PlaylistRetrieved_KeepsId(s, playlist_id, request_id, status_code, body, ub) ==
  IF request_id \notin s.pending_retrieve_playlists_ THEN s
  ELSE
    LET s1 == Probe(s, "PlaylistRetrieved", playlist_id,
                    <<request_id, status_code, SelectedInfo(s, playlist_id),
                      s.pending_retrieve_playlists_>>) IN
    IF Contains(s1.featured_playlists_info_, playlist_id)
    THEN ExtractResult(
           [s1 EXCEPT !.featured_playlists_info_[playlist_id].item_.rows = <<>>],
           status_code, body, Cont("ExtractResult", "playlist", playlist_id, 1, <<>>), ub)
    ELSE IF Contains(s1.user_playlists_info_, playlist_id)
    THEN ExtractResult(
           [s1 EXCEPT !.user_playlists_info_[playlist_id].item_.rows = <<>>],
           status_code, body, Cont("ExtractResult", "playlist", playlist_id, 2, <<>>), ub)
    ELSE
      LET s2 == [s1 EXCEPT !.user_playlists_info_ =
                   MapInsert(@, playlist_id, DefaultPlaylistInfo)] IN
      IF ub THEN Crash(s2, "item_")
      ELSE ExtractResult(s2, status_code, body,
                         Cont("ExtractResult", "playlist", playlist_id, 2, <<>>), ub)

\* operator[] on a missing key inserts PlaylistInfo(), whose constructor leaves
\* id_ and item_ indeterminate; the handler calls removeRows through item_ at
\* once: the process dies (ub), or the call goes unnoticed and the handler
\* carries on with the entry it has created.
PlaylistRetrieved(s, playlist_id, request_id, status_code, body, ub) ==
  IF request_id \notin s.pending_retrieve_playlists_ THEN s
  ELSE
    LET s1 == Probe([s EXCEPT !.pending_retrieve_playlists_ = @ \ {request_id}],
                    "PlaylistRetrieved", playlist_id,
                    <<request_id, status_code, SelectedInfo(s, playlist_id),
                      s.pending_retrieve_playlists_>>) IN
    IF Contains(s1.featured_playlists_info_, playlist_id)
    THEN ExtractResult(
           [s1 EXCEPT !.featured_playlists_info_[playlist_id].item_.rows = <<>>],
           status_code, body, Cont("ExtractResult", "playlist", playlist_id, 1, <<>>), ub)
    ELSE IF Contains(s1.user_playlists_info_, playlist_id)
    THEN ExtractResult(
           [s1 EXCEPT !.user_playlists_info_[playlist_id].item_.rows = <<>>],
           status_code, body, Cont("ExtractResult", "playlist", playlist_id, 2, <<>>), ub)
    ELSE
      LET s2 == [s1 EXCEPT !.user_playlists_info_ =
                   MapInsert(@, playlist_id, DefaultPlaylistInfo)] IN
      IF ub THEN Crash(s2, "item_")
      ELSE ExtractResult(s2, status_code, body,
                         Cont("ExtractResult", "playlist", playlist_id, 2, <<>>), ub)

NewPlaylistCreated(s, name, status_code, body, ub) ==
  ExtractResult(s, status_code, body, Cont("ExtractResult", "create", 0, 0, <<name>>), ub)

PlaylistDeleted(s, playlist_id, status_code, body, ub) ==
  ExtractResult(s, status_code, body, Cont("ExtractResult", "delete", playlist_id, 0, <<>>), ub)

PlaylistRenamed(s, playlist_id, new_name, status_code, body, ub) ==
  ExtractResult(s, status_code, body,
                Cont("ExtractResult", "rename", playlist_id, 0, <<new_name>>), ub)

UserFavoriteSongAdded(s, task_id, status_code, body, ub) ==
  ExtractResult(s, status_code, body, Cont("ExtractResult", "favadd", task_id, 0, <<>>), ub)

SongsRemovedFromFavorites(s, task_id, status_code, body, ub) ==
  ExtractResult(s, status_code, body, Cont("ExtractResult", "favdel", task_id, 0, <<>>), ub)

PlaylistSongsSet(s, playlist_id, task_id, status_code, body, ub) ==
  ExtractResult(s, status_code, body,
                Cont("ExtractResult", "update", playlist_id, task_id, <<>>), ub)

\* --------------------------------------------------------------- operations
Connect(s, username, password) ==
  CreateRequest(s, "login", 0, 0, <<>>, kAuthTokenUrl,
                <<Param("password", password), Param("username", username)>>)

DoSearch(s) ==
  CreateRequest(ClearSearchResults(s), "search", 0, 0, <<s.pending_search_>>, kSearch,
                <<Param("limit", ToString(kSongSearchLimit)),
                  Param("query", s.pending_search_), Param("type", "tracks")>>)

\* history: Search has been called with `text`; the entry records the call,
\* whether the delay was running, and the rows of the search results node.
Searched(s, text, now) ==
  Probe([s EXCEPT !.last_search = <<text>>], "Search", 0,
        <<text, now, s.search_delay_, s.search_.exists, s.search_.rows>>)

Search_EmptyKeepsTimer(s, text, now) ==
  LET s1 == [Searched(s, text, now) EXCEPT !.pending_search_ = text]
      s2 == IF s1.task_search_id_ = 0
            THEN [StartTask(s1) EXCEPT !.task_search_id_ = s1.next_task_id]
            ELSE s1
  IN IF text = "" THEN ClearSearchResults(s2)
     ELSE IF now THEN DoSearch([s2 EXCEPT !.search_delay_ = FALSE])
     ELSE [s2 EXCEPT !.search_delay_ = TRUE]

Search(s, text, now) ==
  LET s1 == [Searched(s, text, now) EXCEPT !.pending_search_ = text]
      s2 == IF s1.task_search_id_ = 0
            THEN [StartTask(s1) EXCEPT !.task_search_id_ = s1.next_task_id]
            ELSE s1
  IN IF text = "" THEN ClearSearchResults([s2 EXCEPT !.search_delay_ = FALSE])
     ELSE IF now THEN DoSearch([s2 EXCEPT !.search_delay_ = FALSE])
     ELSE [s2 EXCEPT !.search_delay_ = TRUE]

SimpleSearch(s, text) ==
  [CreateRequest(s, "simplesearch", s.next_pending_search_id_, 0, <<text>>, kSearch,
                 <<Param("limit", ToString(kSongSimpleSearchLimit)),
                   Param("query", text), Param("type", "tracks")>>)
     EXCEPT !.next_pending_search_id_ = @ + 1]

SearchAsync(s, id, query) ==
  LET service_id == s.next_pending_search_id_
      s1 == SimpleSearch(s, query)
  IN [s1 EXCEPT !.pending_searches_ = MapInsert(@, service_id, PendingState(id, query)),
                !.search_calls = MapInsert(@, service_id,
                                           [orig_id_ |-> id, results |-> 0])]

LoadArtAsync(s, id) ==
  LET loader_id == s.next_loader_id
  IN [Probe(s, "LoadArtAsync", id, <<loader_id>>)
        EXCEPT !.next_loader_id = @ + 1,
               !.cover_loads = @ \cup {loader_id},
               !.cover_loader_tasks_ = MapInsert(@, loader_id, id)]

\* Variant: the entry is read with value(), and stays in the table.
AlbumArtLoaded_NoTake(s, id, image) ==
  LET s1 == Probe(s, "AlbumArtLoaded", id, <<image>>) IN
  IF ~Contains(s1.cover_loader_tasks_, id) THEN s1
  ELSE Emit(s1, "ArtLoaded", s1.cover_loader_tasks_[id], <<image>>)

AlbumArtLoaded(s, id, image) ==
  LET s1 == Probe(s, "AlbumArtLoaded", id, <<image>>) IN
  IF ~Contains(s1.cover_loader_tasks_, id) THEN s1
  ELSE LET original_id == s1.cover_loader_tasks_[id]
       IN Emit([s1 EXCEPT !.cover_loader_tasks_ = MapRemove(@, id)],
               "ArtLoaded", original_id, <<image>>)

\* A QString kept as its pieces: the string itself, and QString::replace.
RECURSIVE Join(_)
Join(pieces) == IF pieces = <<>> THEN "" ELSE Head(pieces) \o Join(Tail(pieces))
Replace(pieces, before, after) ==
  [i \in DOMAIN pieces |-> IF pieces[i] = before THEN after ELSE pieces[i]]

\* QCryptographicHash::hash(..., Md5).toHex(): equal digests for equal inputs,
\* and no two of the inputs at hand collide.
Md5Hex(input) == [md5 |-> input]

RECURSIVE AppendParams(_, _)
AppendParams(request_sig, parameters) ==
  IF parameters = <<>> THEN request_sig
  ELSE AppendParams(request_sig \o Head(parameters).first \o Head(parameters).second,
                    Tail(parameters))

\* The timestamp left out of the signature.
GetStreamingUrlFromSongId_NoTimestamp(s, id, now) ==
  LET parameters == <<Param("format_id", ToString(s.quality_)),
                      Param("intent", "stream"), Param("track_id", id)>>
      request_ts == ToString(now)
      request_sig == AppendParams(Join(Replace(kSteamUrl, "/", "")), parameters)
                       \o kAppSecret
      signed == parameters \o <<Param("request_ts", request_ts),
                                Param("request_sig", Md5Hex(request_sig))>>
  IN WaitForSignal(CreateRequest(s, "stream", 0, 0, <<>>, Join(kSteamUrl), signed),
                   Frame("stream", 0, s.next_req,
                         Cont("ExtractResult", "stream", 0, 0, <<>>)))

\* `now` is time(nullptr).
GetStreamingUrlFromSongId(s, id, now) ==
  LET parameters == <<Param("format_id", ToString(s.quality_)),
                      Param("intent", "stream"), Param("track_id", id)>>
      request_ts == ToString(now)
      request_sig == AppendParams(Join(Replace(kSteamUrl, "/", "")), parameters)
                       \o request_ts \o kAppSecret
      signed == parameters \o <<Param("request_ts", request_ts),
                                Param("request_sig", Md5Hex(request_sig))>>
  IN WaitForSignal(CreateRequest(s, "stream", 0, 0, <<>>, Join(kSteamUrl), signed),
                   Frame("stream", 0, s.next_req,
                         Cont("ExtractResult", "stream", 0, 0, <<>>)))

\* QobuzUrlHandler::StartLoading: the id is the path of the song's url.
StartLoading(s, song_id, now) == GetStreamingUrlFromSongId(s, ToString(song_id), now)

\* finished() of the reply GetStreamingUrlFromSongId waits for.
StreamReplyFinished(s, rid, status_code) ==
  [s EXCEPT !.stack = [i \in DOMAIN s.stack |->
      IF s.stack[i].pc = "stream" /\ s.stack[i].rid = rid
      THEN [s.stack[i] EXCEPT !.woken = TRUE, !.status = status_code]
      ELSE s.stack[i]]]

\* playlistitem_actions(song): remembers the current song.
playlistitem_actions(s, song_id) == [s EXCEPT !.current_song_id_ = song_id]

AddUserFavoriteSong(s, song_id) ==
  CreateRequest(StartTask(s), "favadd", s.next_task_id, song_id, <<>>, kUserAddFavorite,
                <<Param("track_ids", ToString(song_id))>>)

RemoveFromFavorites(s, songs_ids_to_remove) ==
  IF songs_ids_to_remove = <<>> THEN s
  ELSE CreateRequest(StartTask(s), "favdel", s.next_task_id, 0, <<>>, kUserDeleteFavorite,
                     <<Param("track_ids", SongsIdsToStringParameter(songs_ids_to_remove))>>)

CreateNewPlaylist(s, name) ==
  IF name = "" THEN s
  ELSE CreateRequest(s, "create", 0, 0, <<name>>, kCreatePlaylist, <<Param("name", name)>>)

DeletePlaylist(s, playlist_id, confirmed) ==
  IF ~Contains(s.user_playlists_info_, playlist_id) THEN s
  ELSE IF ~confirmed THEN s
  ELSE CreateRequest(s, "delete", playlist_id, 0, <<>>, kDeletePlaylist,
                     <<Param("playlist_id", ToString(playlist_id))>>)

RenamePlaylist(s, playlist_id, new_name) ==
  IF ~Contains(s.user_playlists_info_, playlist_id) THEN s
  ELSE IF new_name = "" THEN s
  ELSE CreateRequest(s, "rename", playlist_id, 0, <<new_name>>, kUpdatePlaylist,
                     <<Param("playlist_id", ToString(playlist_id)),
                       Param("name", new_name)>>)

\* p3 keeps the song list the request was made from.  With an empty list
\* SongsIdsToStringParameter reads songs.at(0) past the end of the list: the
\* process dies on the failed assertion (ub) or an indeterminate number is sent.
\* history: an update request with this song list is sent for the playlist
Sent(s, playlist_id, songs_ids) ==
  [s EXCEPT !.edits =
     MapInsert(@, playlist_id,
               IF Contains(s.edits, playlist_id)
               THEN [s.edits[playlist_id] EXCEPT !.sent = <<songs_ids>>]
               ELSE [before |-> <<>>, added |-> <<>>, sent |-> <<songs_ids>>])]

\* history: the user adds the song to the playlist, which has these songs
Added(s, playlist_id, song_id) ==
  [s EXCEPT !.edits =
     MapInsert(@, playlist_id,
               IF Contains(s.edits, playlist_id)
               THEN [s.edits[playlist_id] EXCEPT !.added = Append(@, song_id)]
               ELSE [before |-> s.user_playlists_info_[playlist_id].songs_ids_,
                     added |-> <<song_id>>, sent |-> <<>>])]

\* The test of pending_retrieve_playlists_ left out.
SetPlaylistSongs_NoGuard(s, playlist_id, songs_ids, ub) ==
  LET s0 == Probe(s, "SetPlaylistSongs", playlist_id,
                  <<songs_ids, s.pending_retrieve_playlists_, s.next_task_id>>)
      s1 == StartTask(s0) IN
  IF songs_ids = <<>> /\ ub THEN Crash(s1, "songs.at")
  ELSE CreateRequest(Sent(s1, playlist_id, songs_ids),
                     "update", playlist_id, s.next_task_id, songs_ids,
                     kUpdatePlaylist,
                     <<Param("playlist_id", ToString(playlist_id)),
                       Param("track_ids",
                             IF songs_ids = <<>> THEN "indeterminate"
                             ELSE SongsIdsToStringParameter(songs_ids))>>)

SetPlaylistSongs(s, playlist_id, songs_ids, ub) ==
  LET s0 == Probe(s, "SetPlaylistSongs", playlist_id,
                  <<songs_ids, s.pending_retrieve_playlists_, s.next_task_id>>) IN
  IF s0.pending_retrieve_playlists_ # {} THEN s0
  ELSE
    LET s1 == StartTask(s0) IN
    IF songs_ids = <<>> /\ ub THEN Crash(s1, "songs.at")
    ELSE CreateRequest(Sent(s1, playlist_id, songs_ids),
                       "update", playlist_id, s.next_task_id, songs_ids,
                       kUpdatePlaylist,
                       <<Param("playlist_id", ToString(playlist_id)),
                         Param("track_ids",
                               IF songs_ids = <<>> THEN "indeterminate"
                               ELSE SongsIdsToStringParameter(songs_ids))>>)

AddCurrentSongToPlaylist(s, playlist_id) ==
  IF ~Contains(s.user_playlists_info_, playlist_id) THEN s
  ELSE SetPlaylistSongs(Added(s, playlist_id, s.current_song_id_), playlist_id,
         Append(s.user_playlists_info_[playlist_id].songs_ids_, s.current_song_id_),
         FALSE)

RECURSIVE RemoveOneEach(_, _)
RemoveOneEach(songs_ids, to_remove) ==
  IF to_remove = <<>> THEN songs_ids
  ELSE RemoveOneEach(
         IF \E i \in 1..Len(songs_ids) : songs_ids[i] = Head(to_remove)
         THEN RemoveRow(songs_ids, Head(to_remove)) ELSE songs_ids,
         Tail(to_remove))

RemoveFromPlaylist(s, playlist_id, songs_ids_to_remove, ub) ==
  IF ~Contains(s.user_playlists_info_, playlist_id) THEN s
  ELSE SetPlaylistSongs(s, playlist_id,
         RemoveOneEach(s.user_playlists_info_[playlist_id].songs_ids_,
                       songs_ids_to_remove),
         ub)

\* QobuzSettingsPage
LoginClicked(s) ==
  IF IsLoggedIn(s) THEN s
  ELSE Connect([s EXCEPT !.login_state = "LoginInProgress"], "user", "password")

LogoutClicked(s, ub) == Logout(s, Cont("LogoutClicked", "", 0, 0, <<>>), ub)

Load(s) == IF IsLoggedIn(s) THEN SettingsConnected(s) ELSE s

Save(s, quality) ==
  [s EXCEPT !.settings["quality"] = <<quality>>, !.quality_ = quality]

\* ------------------------------------------------------------------- Init
\* The state after construction: the credentials are read from the settings
\* (LoadCredentialsIfEmpty), which hold those of an earlier session or none.
FreshSettings == [k \in SettingsKeys |-> <<>>]
StoredSettings ==
  [k \in SettingsKeys |->
     CASE k = "access_token" -> <<"tok">>
       [] k = "user_id" -> <<"u1">>
       [] k = "quality" -> <<MP3>>
       [] OTHER -> <<>>]

Constructed(stored) ==
  LoadCredentialsIfEmpty(
    [access_token_ |-> "", user_id_ |-> "", quality_ |-> MP3,
     search_ |-> NullNode, user_favorites_ |-> NullNode,
     user_playlists_ |-> NullNode, featured_playlists_ |-> NullNode,
     featured_playlists_info_ |-> EmptyMap, user_playlists_info_ |-> EmptyMap,
     pending_search_ |-> "", search_delay_ |-> FALSE,
     next_pending_search_id_ |-> 0, task_search_id_ |-> 0,
     next_pending_playlist_id_ |-> 0, task_featured_playlists_id_ |-> 0,
     task_user_playlists_id_ |-> 0, task_user_favorites_id_ |-> 0,
     pending_retrieve_playlists_ |-> {}, current_song_id_ |-> 0,
     settings |-> IF stored THEN StoredSettings ELSE FreshSettings,
     tasks |-> {}, next_task_id |-> 1, network |-> {}, next_req |-> 1,
     stack |-> <<>>, crashed |-> FALSE, pending_searches_ |-> EmptyMap,
     cover_loader_tasks_ |-> EmptyMap, next_loader_id |-> 1, cover_loads |-> {},
     login_state |-> "LoggedOut", emitted |-> <<>>, probe |-> <<>>,
     search_calls |-> EmptyMap, edits |-> EmptyMap, last_search |-> <<>>])

InitFrom(s) ==
  /\ access_token_ = s.access_token_
  /\ user_id_ = s.user_id_
  /\ quality_ = s.quality_
  /\ search_ = s.search_
  /\ user_favorites_ = s.user_favorites_
  /\ user_playlists_ = s.user_playlists_
  /\ featured_playlists_ = s.featured_playlists_
  /\ featured_playlists_info_ = s.featured_playlists_info_
  /\ user_playlists_info_ = s.user_playlists_info_
  /\ pending_search_ = s.pending_search_
  /\ search_delay_ = s.search_delay_
  /\ next_pending_search_id_ = s.next_pending_search_id_
  /\ task_search_id_ = s.task_search_id_
  /\ next_pending_playlist_id_ = s.next_pending_playlist_id_
  /\ task_featured_playlists_id_ = s.task_featured_playlists_id_
  /\ task_user_playlists_id_ = s.task_user_playlists_id_
  /\ task_user_favorites_id_ = s.task_user_favorites_id_
  /\ pending_retrieve_playlists_ = s.pending_retrieve_playlists_
  /\ current_song_id_ = s.current_song_id_
  /\ settings = s.settings
  /\ tasks = s.tasks
  /\ next_task_id = s.next_task_id
  /\ network = s.network
  /\ next_req = s.next_req
  /\ stack = s.stack
  /\ crashed = s.crashed
  /\ pending_searches_ = s.pending_searches_
  /\ cover_loader_tasks_ = s.cover_loader_tasks_
  /\ next_loader_id = s.next_loader_id
  /\ cover_loads = s.cover_loads
  /\ login_state = s.login_state
  /\ emitted = s.emitted
  /\ probe = s.probe
  /\ search_calls = s.search_calls
  /\ edits = s.edits
  /\ last_search = s.last_search

Init == \E stored \in BOOLEAN : InitFrom(Constructed(stored))

\* The reply of the one request of this kind in flight has finished.
Finished(s, kind) == [s EXCEPT !.network = {r \in @ : r.kind # kind}]

\* A session under way: the stored credentials were loaded, the tree was
\* populated, the settings page was opened, and every retrieval has had its
\* reply: no featured playlist, no favorite, one playlist of the user with
\* these tracks.  No reply object is left; they are counted afresh.
Populated(tracks) ==
  LET s0 == Load(EnsuredConnected(Constructed(TRUE)))
      s1 == FeaturedPlaylistsRetrieved(Finished(s0, "featured"), NO_ERROR, EmptyBody, FALSE)
      s2 == UserFavoritesRetrieved(Finished(s1, "favorites"), NO_ERROR, EmptyBody, FALSE)
      s3 == UserPlaylistsRetrieved(
              Finished(s2, "userplaylists"), NO_ERROR,
              Body("", "", FALSE, <<>>, <<[id |-> 1, name |-> "p", own |-> TRUE]>>, "", 0),
              FALSE)
      s4 == PlaylistRetrieved(Finished(s3, "playlist"), 1, 0, NO_ERROR,
                              Body("", "", FALSE, tracks, <<>>, "", 0), FALSE)
  IN [s4 EXCEPT !.emitted = <<>>, !.probe = <<>>, !.next_req = 1]

InitPopulated == \E tracks \in Listings(Tracks, MaxItems) : InitFrom(Populated(tracks))

\* ---------------------------------------------------------------- actions
\* An event is handled by the running event loop (the application's, or the
\* innermost nested one) as long as the process lives.
Running == ~crashed
Begin == [Cur EXCEPT !.emitted = <<>>, !.probe = <<>>]
Bounded(s) ==
  /\ s.next_req <= MaxRequests + 1
  /\ s.next_task_id <= MaxTasks + 1
  /\ s.next_loader_id <= MaxLoader + 1
  /\ s.next_pending_search_id_ <= MaxSearches
  /\ Len(s.stack) <= MaxDepth
  /\ \A p \in DOMAIN s.edits : Len(s.edits[p].added) <= MaxAdds
Step(s) == Bounded(s) /\ Commit(s)

\* The reply of request r has finished: it is no longer awaited.
Take(r) == [Begin EXCEPT !.network = @ \ {r}]

\* The bodies a reply to a request of a kind can carry with status 200; an
\* error reply's body is not read.
SongBodies == {Body("", "", FALSE, tr, <<>>, "", 0) : tr \in Listings(Tracks, MaxItems)}
PlaylistBodies ==
  {Body("", "", FALSE, <<>>, pl, "", 0) : pl \in Listings(PlaylistItems, MaxItems)}
LoginBodies == {Body(tk, "u1", lossy, <<>>, <<>>, "", 0) : tk \in Tokens, lossy \in BOOLEAN}
StatusBodies == {Body("", "", FALSE, <<>>, <<>>, st, 0) : st \in {"success", ""}}
IdBodies == {Body("", "", FALSE, <<>>, <<>>, "", id) : id \in PlaylistIds \cup {0}}
Replies(bodies, status_code) == IF status_code = NO_ERROR THEN bodies ELSE {EmptyBody}

\* The outcomes of writing through a dangling pointer, where a handler can
\* come to do so: the process dies (TRUE) or the write is lost (FALSE).
UbOutcomes(possible) == IF possible THEN BOOLEAN ELSE {FALSE}

OnConnectFinished ==
  /\ Running
  /\ \E r \in network, status_code \in Statuses :
       /\ r.kind = "login"
       /\ \E body \in Replies(LoginBodies, status_code) :
            Step(ConnectFinished(Take(r), status_code, body, FALSE))

OnUserFavoritesRetrieved ==
  /\ Running
  /\ \E r \in network, status_code \in Statuses :
       /\ r.kind = "favorites"
       /\ \E body \in Replies(SongBodies, status_code) :
            Step(UserFavoritesRetrieved(Take(r), status_code, body, FALSE))

OnFeaturedPlaylistsRetrieved ==
  /\ Running
  /\ \E r \in network, status_code \in Statuses :
       /\ r.kind = "featured"
       /\ \E body \in Replies(PlaylistBodies, status_code) :
            Step(FeaturedPlaylistsRetrieved(Take(r), status_code, body, FALSE))

OnUserPlaylistsRetrieved ==
  /\ Running
  /\ \E r \in network, status_code \in Statuses :
       /\ r.kind = "userplaylists"
       /\ \E body \in Replies(PlaylistBodies, status_code) :
            Step(UserPlaylistsRetrieved(Take(r), status_code, body, FALSE))

OnPlaylistRetrieved ==
  /\ Running
  /\ \E r \in network, status_code \in Statuses :
       /\ r.kind = "playlist"
       /\ \E body \in Replies(SongBodies, status_code),
              ub \in UbOutcomes(status_code = UNAUTHORIZED
                                \/ SelectedInfo(Cur, r.p1) = <<>>) :
            Step(PlaylistRetrieved(Take(r), r.p1, r.p2, status_code, body, ub))

OnSearchFinished ==
  /\ Running
  /\ \E r \in network, status_code \in Statuses :
       /\ r.kind = "search"
       /\ \E body \in Replies(SongBodies, status_code) :
            Step(SearchFinished(Take(r), status_code, body, FALSE))

OnSimpleSearchFinished ==
  /\ Running
  /\ \E r \in network, status_code \in Statuses :
       /\ r.kind = "simplesearch"
       /\ \E body \in Replies(SongBodies, status_code) :
            Step(SimpleSearchFinished(Take(r), r.p1, status_code, body, FALSE))

OnNewPlaylistCreated ==
  /\ Running
  /\ \E r \in network, status_code \in Statuses :
       /\ r.kind = "create"
       /\ \E body \in Replies(IdBodies, status_code) :
            Step(NewPlaylistCreated(Take(r), r.p3[1], status_code, body, FALSE))

OnPlaylistDeleted ==
  /\ Running
  /\ \E r \in network, status_code \in Statuses :
       /\ r.kind = "delete"
       /\ \E body \in Replies(StatusBodies, status_code) :
            Step(PlaylistDeleted(Take(r), r.p1, status_code, body, FALSE))

OnPlaylistRenamed ==
  /\ Running
  /\ \E r \in network, status_code \in Statuses :
       /\ r.kind = "rename"
       /\ \E body \in Replies(IdBodies, status_code) :
            Step(PlaylistRenamed(Take(r), r.p1, r.p3[1], status_code, body, FALSE))

OnUserFavoriteSongAdded ==
  /\ Running
  /\ \E r \in network, status_code \in Statuses :
       /\ r.kind = "favadd"
       /\ \E body \in Replies(StatusBodies, status_code) :
            Step(UserFavoriteSongAdded(Take(r), r.p1, status_code, body, FALSE))

OnSongsRemovedFromFavorites ==
  /\ Running
  /\ \E r \in network, status_code \in Statuses :
       /\ r.kind = "favdel"
       /\ \E body \in Replies(StatusBodies, status_code) :
            Step(SongsRemovedFromFavorites(Take(r), r.p1, status_code, body, FALSE))

OnPlaylistSongsSet ==
  /\ Running
  /\ \E r \in network, status_code \in Statuses :
       /\ r.kind = "update"
       /\ \E body \in Replies(IdBodies, status_code) :
            Step(PlaylistSongsSet(Take(r), r.p1, r.p2, status_code, body, FALSE))

OnStreamReplyFinished ==
  /\ Running
  /\ \E r \in network, status_code \in Statuses :
       /\ r.kind = "stream"
       /\ Step(StreamReplyFinished(Take(r), r.rid, status_code))

\* The innermost nested event loop has been told to quit: WaitForSignal
\* returns, and Logout tests its loop condition again.
Top == stack[Len(stack)]
Pop == [Begin EXCEPT !.stack = SubSeq(@, 1, Len(@) - 1)]

ResumeLogout ==
  /\ Running
  /\ stack # <<>>
  /\ Top.woken
  /\ Top.pc \in {"w1", "w2"}
  /\ \E ub \in UbOutcomes(Top.cont.h = "playlist") :
       Step(LogoutFrom(Pop, Top.pc, Top.task, Top.cont, ub))

ResumeGetStreamingUrl ==
  /\ Running
  /\ stack # <<>>
  /\ Top.woken
  /\ Top.pc = "stream"
  /\ Step(ExtractResult(Pop, Top.status, EmptyBody, Top.cont, FALSE))

\* The user and the other components of the player.
DoLoginClicked == Running /\ ~IsLoggedIn(Cur) /\ Step(LoginClicked(Begin))

DoLogoutClicked ==
  /\ Running
  /\ login_state = "LoggedIn"
  /\ Step(LogoutClicked(Begin, FALSE))

DoLoad == Running /\ IsLoggedIn(Cur) /\ login_state # "LoggedIn" /\ Step(Load(Begin))

DoSave ==
  /\ Running
  /\ login_state = "LoggedIn"
  /\ \E q \in {MP3, FLAC} : Step(Save(Begin, q))

DoLazyPopulate == Running /\ Step(EnsuredConnected(Begin))

DoSearchTextChanged ==
  /\ Running
  /\ IsLoggedIn(Cur)
  /\ \E text \in Queries : Step(Search(Begin, text, FALSE))

SearchDelayTimeout ==
  /\ Running
  /\ search_delay_
  /\ Step(DoSearch([Begin EXCEPT !.search_delay_ = FALSE]))

\* The slot Search called with any text, at once or after the delay.
DoSearchCalled ==
  /\ Running
  /\ IsLoggedIn(Cur)
  /\ \E text \in Texts, now \in BOOLEAN : Step(Search(Begin, text, now))

DoSearchAsync ==
  /\ Running
  /\ \E id \in CallerIds, query \in {"a"} : Step(SearchAsync(Begin, id, query))

DoLoadArtAsync == Running /\ \E id \in CallerIds : Step(LoadArtAsync(Begin, id))

\* Another client of the shared cover loader starts a load.
OtherLoadImageAsync ==
  /\ Running
  /\ Step([Begin EXCEPT !.next_loader_id = @ + 1, !.cover_loads = @ \cup {next_loader_id}])

ImageLoaded ==
  /\ Running
  /\ \E id \in cover_loads, image \in Images :
       Step(AlbumArtLoaded([Begin EXCEPT !.cover_loads = @ \ {id}], id, image))

DoGetStreamingUrl ==
  /\ Running
  /\ \E id \in SongIds, now \in Timestamps : Step(StartLoading(Begin, id, now))

DoPlaylistItemActions ==
  /\ Running
  /\ \E id \in SongIds : Step(playlistitem_actions(Begin, id))

DoAddCurrentSongToUserFavorites ==
  /\ Running
  /\ current_song_id_ # 0
  /\ Step(AddUserFavoriteSong(Begin, current_song_id_))

DoCreateNewPlaylist == Running /\ IsLoggedIn(Cur) /\ Step(CreateNewPlaylist(Begin, "p"))

DoDeletePlaylist ==
  /\ Running
  /\ \E id \in DOMAIN user_playlists_info_ : Step(DeletePlaylist(Begin, id, TRUE))

DoAddCurrentSongToPlaylist ==
  /\ Running
  /\ current_song_id_ # 0
  /\ \E id \in DOMAIN user_playlists_info_ : Step(AddCurrentSongToPlaylist(Begin, id))

\* A response's item list is projected to songs.
DoExtractSongs ==
  /\ Running
  /\ \E items \in SeqsUpTo(SongRecords, MaxRecords) :
       Step(Probe(Begin, "ExtractSongs", 0,
                  <<items, [i \in DOMAIN items |-> ExtractSong(items[i])],
                    ExtractSongs(items)>>))

\* ---------------------------------------------------------- specifications
\* A session: logging in, the lazily populated tree and its retrievals,
\* logging out from the settings page or on an unauthorized reply.
Next ==
  \/ DoLoginClicked
  \/ OnConnectFinished
  \/ DoLazyPopulate
  \/ OnUserFavoritesRetrieved
  \/ OnFeaturedPlaylistsRetrieved
  \/ OnUserPlaylistsRetrieved
  \/ OnPlaylistRetrieved
  \/ ResumeLogout
  \/ DoLoad
  \/ DoLogoutClicked

Spec == Init /\ [][Next]_vars

\* The search provider, with the retrievals of the tree and the Logout that
\* an unauthorized reply runs into.
NextProvider ==
  \/ DoLazyPopulate
  \/ OnUserFavoritesRetrieved
  \/ OnFeaturedPlaylistsRetrieved
  \/ OnUserPlaylistsRetrieved
  \/ OnPlaylistRetrieved
  \/ DoSearchAsync
  \/ OnSimpleSearchFinished
  \/ ResumeLogout

SpecProvider == Init /\ [][NextProvider]_vars

\* The search box of the tree, next to the retrievals and Logout.
NextSearch ==
  \/ DoLazyPopulate
  \/ OnUserFavoritesRetrieved
  \/ OnFeaturedPlaylistsRetrieved
  \/ OnUserPlaylistsRetrieved
  \/ DoSearchTextChanged
  \/ SearchDelayTimeout
  \/ OnSearchFinished
  \/ DoLoad
  \/ DoLogoutClicked
  \/ ResumeLogout

SpecSearch == Init /\ [][NextSearch]_vars

\* The searches of the global search alone.
NextResults ==
  \/ DoSearchAsync
  \/ OnSimpleSearchFinished

SpecResults == Init /\ [][NextResults]_vars

\* The cover art of the search results.
NextArt ==
  \/ DoLoadArtAsync
  \/ OtherLoadImageAsync
  \/ ImageLoaded

SpecArt == Init /\ [][NextArt]_vars

\* The projection of a response's items to songs.
NextSongs == DoExtractSongs

SpecSongs == Init /\ [][NextSongs]_vars

\* Playing songs: the url handler asks for streaming urls while the tree is
\* being populated and the quality is changed in the settings.
NextStream ==
  \/ DoGetStreamingUrl
  \/ OnStreamReplyFinished
  \/ ResumeGetStreamingUrl
  \/ DoLoad
  \/ DoSave
  \/ DoLazyPopulate

SpecStream == Init /\ [][NextStream]_vars

\* Editing the user's playlist in a session under way: songs are added from
\* the player's menu, the update and refresh replies arrive, the user logs out.
NextEdit ==
  \/ DoPlaylistItemActions
  \/ DoAddCurrentSongToPlaylist
  \/ OnPlaylistSongsSet
  \/ OnPlaylistRetrieved
  \/ DoLogoutClicked
  \/ ResumeLogout

SpecEdit == InitPopulated /\ [][NextEdit]_vars

\* Playlists are deleted while the tree is being populated.
NextDelete ==
  \/ DoLazyPopulate
  \/ OnUserFavoritesRetrieved
  \/ OnFeaturedPlaylistsRetrieved
  \/ OnUserPlaylistsRetrieved
  \/ OnPlaylistRetrieved
  \/ DoDeletePlaylist
  \/ OnPlaylistDeleted
  \/ ResumeLogout

SpecDelete == Init /\ [][NextDelete]_vars

\* Playlists are created in a session under way, and the user logs out.
NextCreate ==
  \/ DoCreateNewPlaylist
  \/ OnNewPlaylistCreated
  \/ DoLogoutClicked

SpecCreate == InitPopulated /\ [][NextCreate]_vars

\* ------------------------------------------------------------------ claims
Has(seq, name) == \E i \in DOMAIN seq : seq[i].sig = name
Count(seq, name) == Cardinality({i \in DOMAIN seq : seq[i].sig = name})
At(seq, name) == CHOOSE i \in DOMAIN seq : seq[i].sig = name

\* Every reply has been handed to its handler, no timer runs and no suspended
\* handler can resume: nothing happens any more unless the user acts.
Quiescent ==
  /\ Running
  /\ network = {}
  /\ ~search_delay_
  /\ stack # <<>> => ~Top.woken

\* C1: a ResultsAvailable signal carries the caller id given to the
\* SearchAsync call that issued the request (not the service's id), and the
\* valid songs of the reply to that request, whatever the number of
\* outstanding searches and the order of their replies.
C1_ResultsCarryCallerId ==
  \A i \in DOMAIN emitted :
    emitted[i].sig = "ResultsAvailable" =>
      \E j \in DOMAIN probe, k \in DOMAIN probe :
        /\ probe[j].sig = "SearchDone"
        /\ probe[k].sig = "ExtractResult.return"
        /\ probe[k].b[1] = "simplesearch"
        /\ probe[k].a = probe[j].a
        /\ Contains(search_calls, probe[j].a)
        /\ emitted[i].a = search_calls[probe[j].a].orig_id_
        /\ emitted[i].b = <<ExtractSongs(probe[k].b[2].tracks)>>

\* A reply arrives out of order: results with a song are delivered for a
\* search whose caller id differs from its service id while an earlier
\* search is still pending.
C1_Witness ==
  /\ Has(emitted, "ResultsAvailable")
  /\ Has(probe, "SearchDone")
  /\ emitted[At(emitted, "ResultsAvailable")].a # probe[At(probe, "SearchDone")].a
  /\ emitted[At(emitted, "ResultsAvailable")].b # <<<<>>>>
  /\ \E k \in DOMAIN pending_searches_ : k < probe[At(probe, "SearchDone")].a

\* What SearchDone does with the results it is given: ResultsAvailable once,
\* with the caller id; SearchFinished(id) after it exactly when no pending
\* search with the same caller id remains; no search gets its results twice,
\* and a search is pending exactly until its results are delivered.
C2_PerDelivery ==
  /\ Has(emitted, "ResultsAvailable") <=> Has(probe, "SearchDone")
  /\ Has(emitted, "SearchFinished") => Has(emitted, "ResultsAvailable")
  /\ Count(emitted, "ResultsAvailable") <= 1
  /\ Count(emitted, "SearchFinished") <= 1
  /\ Has(emitted, "ResultsAvailable") =>
       LET id == emitted[At(emitted, "ResultsAvailable")].a
           remains == \E k \in DOMAIN pending_searches_ :
                         pending_searches_[k].orig_id_ = id
       IN /\ Has(emitted, "SearchFinished") <=> ~remains
          /\ Has(emitted, "SearchFinished") =>
               /\ emitted[At(emitted, "SearchFinished")].a = id
               /\ At(emitted, "SearchFinished") > At(emitted, "ResultsAvailable")
  /\ \A sid \in DOMAIN search_calls :
       /\ search_calls[sid].results <= 1
       /\ search_calls[sid].results = 0 <=> Contains(pending_searches_, sid)

\* Once nothing is awaited any more, every search has had its results.
C2_AllDelivered ==
  Quiescent => \A sid \in DOMAIN search_calls : search_calls[sid].results = 1

\* C2: for every SearchAsync(id, query), once the reply of its request is
\* handled, with status 200 or with an HTTP error, ResultsAvailable(id, ...) is
\* emitted exactly once and is followed by SearchFinished(id); SearchFinished
\* is emitted only when no other pending search with that caller id remains.
C2_ResultsThenFinished == C2_PerDelivery /\ C2_AllDelivered

\* What ExtractResult leaves when it returns after an unauthorized reply.
C3_ClearedAtReturn ==
  (\E i \in DOMAIN emitted :
      emitted[i].sig = "ReplyError" /\ emitted[i].a = UNAUTHORIZED) =>
    /\ access_token_ = ""
    /\ user_id_ = ""
    /\ settings["access_token"] = <<>>
    /\ settings["user_id"] = <<>>

\* Once nothing is awaited any more, no handler holds an unauthorized reply
\* with the credentials still stored.
C3_ClearedInTheEnd ==
  Quiescent =>
    \A i \in DOMAIN stack :
      stack[i].cont.k = "ExtractResult" =>
        /\ access_token_ = ""
        /\ user_id_ = ""
        /\ settings["access_token"] = <<>>
        /\ settings["user_id"] = <<>>

\* C3: whenever ExtractResult handles a reply with status 401, the service
\* reaches a state in which access_token_ and user_id_ are empty and the
\* settings keys access_token and user_id are removed, whatever the kind of
\* the request and whatever else is in flight.
C3_UnauthorizedClearsCredentials == C3_ClearedAtReturn /\ C3_ClearedInTheEnd

\* C4: at the moment Logout clears the credentials and the tree, no retrieval
\* started by the service (featured playlists, user playlists, favorites, a
\* tree search, a playlist refresh) is still awaiting its reply.
C4_NoRetrievalAwaitedAtClear ==
  \A j \in DOMAIN probe :
    probe[j].sig = "Logout.clear" => probe[j].b[1] = {}

\* C5: once every issued request has had its reply handled, no call of
\* Logout is still waiting: every call has returned, whether it came from the
\* settings page or from ExtractResult inside a reply handler.
C5_LogoutReturns ==
  Quiescent => \A i \in DOMAIN stack : stack[i].pc \notin {"w1", "w2"}

\* A state in which nothing is awaited while a reply handler is still inside
\* Logout, with the credentials of the session stored.
C5_Stuck ==
  /\ Quiescent
  /\ stack # <<>>
  /\ Top.pc = "w1"
  /\ Top.cont.k = "ExtractResult"
  /\ access_token_ # ""

\* C6: when Logout returns, access_token_ and user_id_ are empty, quality_ is
\* NONE, the settings keys access_token, user_id and quality are removed, the
\* four tree nodes are removed and their pointers null, both playlist info
\* maps are empty, pending_search_ is empty and the logout task has been
\* reported finished.
C6_LogoutPostcondition ==
  \A j \in DOMAIN probe :
    probe[j].sig = "Logout.done" =>
      LET after == probe[j].b[1]
      IN /\ after.access_token_ = ""
         /\ after.user_id_ = ""
         /\ after.quality_ = NONE
         /\ after.keys \cap {"access_token", "user_id", "quality"} = {}
         /\ after.nodes = {}
         /\ after.infos = {}
         /\ after.pending_search_ = ""
         /\ ~after.running
         /\ probe[j].a \notin tasks

\* Logout returns after it has waited, in a session that had logged in from
\* the settings page.
C6_Witness ==
  /\ Has(probe, "Logout.done")
  /\ ~Has(probe, "Logout")
  /\ settings["user_mail"] # <<>>

\* C7: ConnectFinished emits Connected and writes access_token and user_id to
\* the settings exactly when the reply carries a non-empty user_auth_token and
\* lossy_streaming is true; otherwise Connected is not emitted and the handler
\* writes no access token.
C7_ConnectedIffPremium ==
  [][/\ \A j \in DOMAIN probe' :
          (probe'[j].sig = "ExtractResult.return" /\ probe'[j].b[1] = "login") =>
            LET response == probe'[j].b[2]
                premium == response.token # "" /\ response.lossy
            IN /\ Has(emitted', "Connected") <=> premium
               /\ Has(probe', "setValue") <=> premium
               /\ premium =>
                    /\ Count(emitted', "Connected") = 1
                    /\ settings'["access_token"] = <<response.token>>
                    /\ settings'["user_id"] = <<response.user_id>>
               /\ ~premium =>
                    /\ settings'["access_token"] \in {settings["access_token"], <<>>}
                    /\ settings'["user_id"] \in {settings["user_id"], <<>>}
     /\ (Has(emitted', "Connected") \/ Has(probe', "setValue")) =>
          \E j \in DOMAIN probe' :
            probe'[j].sig = "ExtractResult.return" /\ probe'[j].b[1] = "login"
    ]_vars

\* A login succeeds in a fresh installation: Connected, and the token stored.
C7_Witness ==
  /\ Has(emitted, "Connected")
  /\ settings["access_token"] = <<"tok">>
  /\ settings["quality"] = <<>>

\* A login is refused for want of a premium account while the credentials of
\* an earlier session stay stored.
C7_WitnessNotPremium ==
  /\ Has(emitted, "NotPremium")
  /\ stack # <<>>
  /\ settings["access_token"] # <<>>

\* C8: when the reply carries a token but lossy_streaming is false,
\* ConnectFinished emits NotPremium, starts no retrieval and calls Logout; when
\* ConnectFinished has returned, IsLoggedIn is false and none of the four tree
\* nodes exists.
C8_NotPremiumLoggedOut ==
  /\ \A j \in DOMAIN probe :
       (/\ probe[j].sig = "ExtractResult.return"
        /\ probe[j].b[1] = "login"
        /\ probe[j].b[2].token # ""
        /\ ~probe[j].b[2].lossy) =>
         /\ Count(emitted, "NotPremium") = 1
         /\ ~Has(emitted, "Connected")
         /\ ~Has(probe, "CreateRequest")
         /\ \/ Has(probe, "ConnectFinished.return")
            \/ /\ stack # <<>>
               /\ Top.pc \in {"w1", "w2"}
               /\ Top.cont.k = "return"
  /\ Has(emitted, "NotPremium") =>
       \E j \in DOMAIN probe :
         /\ probe[j].sig = "ExtractResult.return"
         /\ probe[j].b[1] = "login"
         /\ probe[j].b[2].token # ""
         /\ ~probe[j].b[2].lossy
  /\ Has(probe, "ConnectFinished.return") =>
       /\ ~IsLoggedIn(Cur)
       /\ user_id_ = ""
       /\ ~search_.exists
       /\ ~user_favorites_.exists
       /\ ~featured_playlists_.exists
       /\ ~user_playlists_.exists
       /\ ~Has(probe, "CreateRequest")

\* ConnectFinished returns from the refused login after its Logout has waited
\* for the retrievals of a session that was running.
C8_Witness ==
  /\ Has(probe, "ConnectFinished.return")
  /\ ~Has(emitted, "NotPremium")

\* ConnectFinished returns from the refused login at once.
C8_WitnessAtOnce ==
  /\ Has(probe, "ConnectFinished.return")
  /\ Has(emitted, "NotPremium")

\* What ExtractResult does by the time it returns: one ReplyError with the
\* status of the reply and an empty map for a status other than 200, no
\* ReplyError for status 200.
C9_PerReturn ==
  /\ \A j \in DOMAIN probe :
       probe[j].sig = "ExtractResult" =>
         IF probe[j].a = NO_ERROR
         THEN ~Has(emitted, "ReplyError") /\ Has(probe, "ExtractResult.return")
         ELSE IF Has(probe, "ExtractResult.return")
         THEN /\ Count(emitted, "ReplyError") = 1
              /\ emitted[At(emitted, "ReplyError")].a = probe[j].a
              /\ probe[At(probe, "ExtractResult.return")].b[2] = EmptyBody
         ELSE /\ ~Has(emitted, "ReplyError")
              /\ probe[j].a = UNAUTHORIZED
  /\ (Has(probe, "ExtractResult.return") /\ ~Has(probe, "ExtractResult")) =>
       /\ Count(emitted, "ReplyError") = 1
       /\ emitted[At(emitted, "ReplyError")].a = UNAUTHORIZED
       /\ probe[At(probe, "ExtractResult.return")].b[2] = EmptyBody
  /\ Has(emitted, "ReplyError") => Has(probe, "ExtractResult.return")
  /\ Count(probe, "ExtractResult.return") <= 1

\* Once nothing is awaited any more, no reply with a status other than 200 is
\* left without its ReplyError.
C9_AllReported ==
  Quiescent => \A i \in DOMAIN stack : stack[i].cont.k # "ExtractResult"

\* C9: for every reply whose status is not 200, ExtractResult emits ReplyError
\* with that status exactly once and returns an empty map, so that the handler
\* adds nothing from the reply; for status 200 it emits no ReplyError.
C9_ReplyErrorOnce == C9_PerReturn /\ C9_AllReported

\* C10: LoadArtAsync files the caller id under the loader id it is given;
\* ImageLoaded for a filed loader id emits ArtLoaded(caller id, image) exactly
\* once and removes the entry; ImageLoaded for a loader id that is not filed
\* emits nothing and leaves cover_loader_tasks_ unchanged.
C10_ArtLoadedOnce ==
  [][/\ Has(probe', "LoadArtAsync") =>
          LET call == probe'[At(probe', "LoadArtAsync")]
          IN /\ call.b[1] = next_loader_id
             /\ cover_loader_tasks_' = MapInsert(cover_loader_tasks_, call.b[1], call.a)
     /\ Has(probe', "AlbumArtLoaded") =>
          LET id == probe'[At(probe', "AlbumArtLoaded")].a
              image == probe'[At(probe', "AlbumArtLoaded")].b[1]
          IN IF Contains(cover_loader_tasks_, id)
             THEN /\ emitted' = <<Sig("ArtLoaded", cover_loader_tasks_[id], <<image>>)>>
                  /\ cover_loader_tasks_' = MapRemove(cover_loader_tasks_, id)
             ELSE /\ emitted' = <<>>
                  /\ cover_loader_tasks_' = cover_loader_tasks_
     /\ ~Has(probe', "AlbumArtLoaded") => ~Has(emitted', "ArtLoaded")
    ]_vars

\* The second of two loads is reported first, to caller 2, and the first load
\* stays filed.
C10_Witness ==
  /\ Has(emitted, "ArtLoaded")
  /\ emitted[At(emitted, "ArtLoaded")].a = 2
  /\ probe[At(probe, "AlbumArtLoaded")].a = 2
  /\ DOMAIN cover_loader_tasks_ = {1}

\* A load of another client of the cover loader is reported while a load of
\* this provider is filed.
C10_WitnessOther ==
  /\ Has(probe, "AlbumArtLoaded")
  /\ emitted = <<>>
  /\ cover_loader_tasks_ # EmptyMap

\* C11: ExtractSong marks the song valid exactly when the record is not
\* empty and its streamable field is true, and ExtractSongs returns exactly the
\* valid songs of the response's items, in the order of the response.
C11_ValidSongsInOrder ==
  \A j \in DOMAIN probe :
    probe[j].sig = "ExtractSongs" =>
      LET items == probe[j].b[1]
          song == probe[j].b[2]
          songs == probe[j].b[3]
          ok == {i \in DOMAIN items :
                   /\ DOMAIN items[i] # {}
                   /\ "streamable" \in DOMAIN items[i]
                   /\ items[i].streamable = TRUE}
          nth(k) == CHOOSE i \in ok : Cardinality({h \in ok : h <= i}) = k
      IN /\ \A i \in DOMAIN items : song[i].valid <=> i \in ok
         /\ Len(songs) = Cardinality(ok)
         /\ \A k \in 1..Len(songs) :
              songs[k] = (IF "id" \in DOMAIN items[nth(k)] THEN items[nth(k)].id ELSE 0)

\* A response with a track, a record that has no streamable field and a
\* record without fields: one song comes out of three items.
C11_Witness ==
  /\ Has(probe, "ExtractSongs")
  /\ probe[At(probe, "ExtractSongs")].b[1] = <<[id |-> 3], [id |-> 1, streamable |-> TRUE], NoFields>>
  /\ probe[At(probe, "ExtractSongs")].b[3] = <<1>>

\* C12: the signature of a streaming url request is the digest of the
\* endpoint name without its slashes, followed by the name and value of
\* format_id, intent and track_id in that order, the timestamp and the app
\* secret; the request carries those three parameters, request_ts and
\* request_sig, and the request of no other endpoint carries a signature.
C12_SignedStreamRequest ==
  \A r \in network :
    IF r.ressource_name = "/track/getFileUrl"
    THEN /\ Len(r.params) = 5
         /\ [i \in 1..5 |-> r.params[i].first] =
              <<"format_id", "intent", "track_id", "request_ts", "request_sig">>
         /\ r.params[5].second =
              [md5 |-> "trackgetFileUrl"
                         \o "format_id" \o r.params[1].second
                         \o "intent" \o r.params[2].second
                         \o "track_id" \o r.params[3].second
                         \o r.params[4].second \o ""]
         /\ r.params[1].second \in {"0", "5", "6"}
         /\ r.params[2].second = "stream"
         /\ r.params[3].second \in {"1", "2"}
         /\ r.params[4].second \in {"1700000000", "1700000001"}
    ELSE \A i \in DOMAIN r.params : r.params[i].first \notin {"request_sig", "request_ts"}

\* Two streaming url requests for the same song and quality, made at
\* different times, and a request of the tree in flight next to them.
C12_Witness ==
  /\ \E r1 \in network, r2 \in network :
       /\ r1.ressource_name = "/track/getFileUrl"
       /\ r2.ressource_name = "/track/getFileUrl"
       /\ r1.params[1] = r2.params[1]
       /\ r1.params[3] = r2.params[3]
       /\ r1.params[5] # r2.params[5]
       /\ r1.params[1].second = "6"
  /\ \E r \in network : r.ressource_name = "/playlist/getFeatured"

\* C13: between any two events the keys of pending_searches_ are the service
\* search ids SimpleSearch returned to SearchAsync whose SimpleSearchResults
\* has not been delivered yet (the reply is awaited, or its handler has not
\* come to emit the signal); no service search id is handed out twice, and
\* the table is empty whenever no provider search is outstanding.
C13_PendingSearchesAreOutstanding ==
  LET awaited == {r.p1 : r \in {q \in network : q.kind = "simplesearch"}}
      held == {stack[i].cont.p1 :
                 i \in {h \in DOMAIN stack : stack[h].cont.h = "simplesearch"}}
  IN /\ DOMAIN pending_searches_ = awaited \cup held
     /\ awaited \cup held \subseteq DOMAIN search_calls
     /\ \A sid \in DOMAIN search_calls : sid < next_pending_search_id_
     /\ \A r1 \in network, r2 \in network :
          (r1.kind = "simplesearch" /\ r2.kind = "simplesearch" /\ r1.p1 = r2.p1)
            => r1 = r2
     /\ awaited \cup held = {} => pending_searches_ = EmptyMap

\* The second of three searches has had its results; the first and the third
\* are still filed.
C13_Witness ==
  /\ Has(probe, "SearchDone")
  /\ probe[At(probe, "SearchDone")].a = 1
  /\ DOMAIN pending_searches_ = {0, 2}

\* The last outstanding search has had its results: the table is empty again.
C13_WitnessEmpty ==
  /\ Has(probe, "SearchDone")
  /\ DOMAIN search_calls = {0, 1}
  /\ pending_searches_ = EmptyMap

\* C14: SetPlaylistSongs sends no update request and starts no task when
\* pending_retrieve_playlists_ is not empty, and sends one otherwise; so no
\* update request is sent while the reply of a playlist refresh is awaited.
C14_NoUpdateWhileRetrieving ==
  /\ \A j \in DOMAIN probe :
       probe[j].sig = "SetPlaylistSongs" =>
         IF probe[j].b[2] # {}
         THEN /\ ~Has(probe, "CreateRequest")
              /\ next_task_id = probe[j].b[3]
              /\ probe[j].b[3] \notin tasks
         ELSE /\ Count(probe, "CreateRequest") = 1
              /\ probe[At(probe, "CreateRequest")].b = <<"update">>
              /\ next_task_id = probe[j].b[3] + 1
              /\ probe[j].b[3] \in tasks
  /\ \A j \in DOMAIN probe :
       (probe[j].sig = "CreateRequest" /\ probe[j].b = <<"update">>) =>
         /\ Has(probe, "SetPlaylistSongs")
         /\ pending_retrieve_playlists_ = {}
         /\ \A r \in network : r.kind # "playlist"

\* A song is added while the refresh that followed an earlier update is
\* still awaited: nothing is sent.
C14_Witness ==
  /\ Has(probe, "SetPlaylistSongs")
  /\ probe[At(probe, "SetPlaylistSongs")].b[2] # {}
  /\ \E r \in network : r.kind = "playlist"

\* C15: pending_retrieve_playlists_ holds exactly the ids of the
\* RefreshPlaylist requests whose reply has not been handled; the handler of a
\* reply removes its own id and no other; a reply whose id is not in the set
\* changes nothing and emits nothing.
C15_PendingRefreshes ==
  /\ pending_retrieve_playlists_ = {r.p2 : r \in {q \in network : q.kind = "playlist"}}
  /\ \A j \in DOMAIN probe :
       probe[j].sig = "PlaylistRetrieved" =>
         /\ probe[j].b[1] \in probe[j].b[4]
         /\ pending_retrieve_playlists_ = probe[j].b[4] \ {probe[j].b[1]}
  /\ \A playlist_id \in PlaylistIds, request_id \in 0..MaxRequests,
        status_code \in Statuses :
       request_id \notin pending_retrieve_playlists_ =>
         \A body \in Replies(SongBodies, status_code) :
           PlaylistRetrieved(Cur, playlist_id, request_id, status_code, body, FALSE) = Cur

\* The reply of one refresh is handled while the reply of another is awaited,
\* whose id stays in the set.
C15_Witness ==
  /\ Has(probe, "PlaylistRetrieved")
  /\ pending_retrieve_playlists_ # {}
  /\ Cardinality(probe[At(probe, "PlaylistRetrieved")].b[4]) = 2

\* C16: when PlaylistRetrieved has handled a reply that was not canceled for
\* playlist p, the songs_ids_ of p's entry are the ids of the valid songs of the
\* reply, in order, with one row under p's node per song, and PlaylistRetrieved()
\* has been emitted; and after every handler the songs_ids_ of every tracked
\* playlist are as many as the rows of its node.
C16_SongsMatchRows ==
  /\ \A j \in DOMAIN probe :
       (probe[j].sig = "ExtractResult.return" /\ probe[j].b[1] = "playlist") =>
         LET songs == ExtractSongs(probe[j].b[2].tracks)
             now == SelectedInfo(Cur, probe[j].a)
         IN /\ ~crashed
            /\ now # <<>>
            /\ now[1].songs_ids_ = songs
            /\ now[1].item_.rows = songs
            /\ Has(emitted, "PlaylistRetrieved")
  /\ Running =>
       /\ \A p \in DOMAIN user_playlists_info_ :
            Len(user_playlists_info_[p].songs_ids_) = Len(user_playlists_info_[p].item_.rows)
       /\ \A p \in DOMAIN featured_playlists_info_ :
            Len(featured_playlists_info_[p].songs_ids_) =
              Len(featured_playlists_info_[p].item_.rows)

\* C17: once two songs have been added to a user playlist by two
\* AddCurrentSongToPlaylist actions, the last update request sent for the
\* playlist holds the songs the playlist had before and both added songs.
C17_BothAdditionsSent ==
  \A p \in DOMAIN edits :
    (Len(edits[p].added) = 2 /\ edits[p].added[1] # edits[p].added[2]) =>
      /\ edits[p].sent # <<>>
      /\ LET wanted == edits[p].before \o edits[p].added
             sent == edits[p].sent[1]
         IN \A x \in SongIds :
              Cardinality({i \in DOMAIN sent : sent[i] = x}) >=
                Cardinality({i \in DOMAIN wanted : wanted[i] = x})

\* C18: an error reply to a playlist refresh leaves the songs_ids_ of the
\* playlist and the rows under its node as they were before the reply.
C18_ErrorKeepsSongs ==
  \A j \in DOMAIN probe :
    (/\ probe[j].sig = "PlaylistRetrieved"
     /\ probe[j].b[2] # NO_ERROR
     /\ probe[j].b[3] # <<>>
     /\ SelectedInfo(Cur, probe[j].a) # <<>>) =>
      /\ SelectedInfo(Cur, probe[j].a)[1].songs_ids_ = probe[j].b[3][1].songs_ids_
      /\ SelectedInfo(Cur, probe[j].a)[1].item_.rows = probe[j].b[3][1].item_.rows

\* C19: when PlaylistRetrieved handles a reply that was not canceled for
\* playlist p, p is a key of featured_playlists_info_ or user_playlists_info_
\* when the handler selects the entry and when it writes the songs into it,
\* and the lookup never creates an entry whose tree item is unset.
C19_EntryExists ==
  /\ \A j \in DOMAIN probe :
       probe[j].sig = "PlaylistRetrieved" => probe[j].b[3] # <<>>
  /\ \A j \in DOMAIN probe :
       (probe[j].sig = "ExtractResult.return" /\ probe[j].b[1] = "playlist") =>
         /\ SelectedInfo(Cur, probe[j].a) # <<>>
         /\ ~crashed
  /\ \A p \in DOMAIN user_playlists_info_ : user_playlists_info_[p].item_.exists
  /\ \A p \in DOMAIN featured_playlists_info_ : featured_playlists_info_[p].item_.exists

\* C20: the tree node a reply handler writes to (user_favorites_,
\* featured_playlists_, user_playlists_, search_) exists wherever the handler
\* dereferences it.
C20_NodesExist ==
  \A j \in DOMAIN probe :
    probe[j].sig = "crash" =>
      probe[j].b[1] \notin {"user_favorites_", "featured_playlists_",
                            "user_playlists_", "search_"}

\* The search box: Search called with any text, the delay timer, the reply of
\* the tree search, and Logout from the settings page.
NextDelay ==
  \/ DoSearchCalled
  \/ SearchDelayTimeout
  \/ OnSearchFinished
  \/ DoLogoutClicked
  \/ ResumeLogout

\* A populated session whose playlist is empty; the retrievals that populated
\* it have used the first requests of the run.
InitSearching == InitFrom([Populated(<<>>) EXCEPT !.next_req = 3])

SpecDelay == InitSearching /\ [][NextDelay]_vars

\* The Search calls and the tree-search requests of the last step.
SearchCalls == {i \in DOMAIN probe : probe[i].sig = "Search"}
SearchRequests ==
  {r \in network : \E i \in DOMAIN probe :
     /\ probe[i].sig = "CreateRequest"
     /\ probe[i].b = <<"search">>
     /\ probe[i].a = r.rid}
RequestsIssued == {i \in DOMAIN probe : probe[i].sig = "CreateRequest"}
QueryOf(r) == {r.params[j].second : j \in {k \in DOMAIN r.params : r.params[k].first = "query"}}

\* Search(text, false) with a text issues no request and leaves the delay
\* running.
C21_NoRequestBeforeTimeout ==
  \A i \in SearchCalls :
    (probe[i].b[1] # "" /\ ~probe[i].b[2]) =>
      RequestsIssued = {} /\ search_delay_

\* Search(text, true) with a text stops the delay and issues one search
\* request with that text in the same call.
C21_NowIssuesAtOnce ==
  \A i \in SearchCalls :
    (probe[i].b[1] # "" /\ probe[i].b[2]) =>
      /\ ~search_delay_
      /\ Cardinality(RequestsIssued) = 1
      /\ \E r \in SearchRequests : QueryOf(r) = {probe[i].b[1]}

\* Whenever a tree-search request is issued, by Search or by the timeout of
\* the delay, its query is the text of the most recent Search call, and the
\* single-shot delay is no longer running.
C21_FiredCarriesLastText ==
  \A r \in SearchRequests :
    /\ ~search_delay_
    /\ last_search # <<>>
    /\ QueryOf(r) = {last_search[1]}

\* C21: Search(text, false) with a non-empty text issues no request until
\* the delay elapses; the request issued when the delay fires carries the
\* text of the most recent Search call; Search(text, true) cancels the delay
\* and issues the request at once.
C21_DelayedSearch ==
  /\ C21_NoRequestBeforeTimeout
  /\ C21_NowIssuesAtOnce
  /\ C21_FiredCarriesLastText

\* C22: a Search call with an empty text leaves the delay timer stopped and
\* the search results node without rows, and issues no request.
C22_EmptyTextClears ==
  \A i \in SearchCalls :
    probe[i].b[1] = "" =>
      /\ ~search_delay_
      /\ search_.exists = probe[i].b[4]
      /\ search_.rows = <<>>
      /\ RequestsIssued = {}
      /\ pending_search_ = ""

\* Search("") called while the delay runs and the node shows results.
C22_Witness ==
  \E i \in SearchCalls :
    /\ probe[i].b[1] = ""
    /\ probe[i].b[3]
    /\ probe[i].b[4]
    /\ probe[i].b[5] # <<>>
====
